---- MODULE Spec2Model ----
(***************************************************************************)
(* A model of Prince (goossaert/prince): the worker-side wrappers around   *)
(* the user's map and reduce functions (prince/job.py, prince.py), the     *)
(* parameter passing between the driver and its workers (prince.py) and    *)
(* the iteration controllers of the example programs.                      *)
(*                                                                         *)
(* Python strings are sequences of one-character strings, so that rstrip,  *)
(* split, startswith and the formatting of numbers are computed the way    *)
(* the code computes them.                                                 *)
(***************************************************************************)
EXTENDS Integers, Sequences, FiniteSets, TLC

TAB == "\t"
NL  == "\n"
SP  == " "

\* Python's None, as a value no string of characters equals.
None == <<"None">>

\* the empty dictionary
EmptyDict == [n \in {} |-> None]

\* string.whitespace as str.rstrip() with no argument uses it
Whitespace == {SP, TAB, NL, "\r"}

\* ord(c) for the characters the model uses
Ord(c) ==
    CASE c = TAB -> 9
      [] c = NL  -> 10
      [] c = "\r" -> 13
      [] c = SP  -> 32
      [] c = "\"" -> 34
      [] c = "-" -> 45
      [] c = "0" -> 48
      [] c = "1" -> 49
      [] c = "2" -> 50
      [] c = "3" -> 51
      [] c = "4" -> 52
      [] c = "5" -> 53
      [] c = "6" -> 54
      [] c = "7" -> 55
      [] c = "8" -> 56
      [] c = "9" -> 57
      [] c = "a" -> 97
      [] c = "b" -> 98
      [] c = "c" -> 99
      [] c = "m" -> 109
      [] c = "p" -> 112
      [] c = "r" -> 114
      [] c = "t" -> 116
      [] c = "x" -> 120
      [] c = "y" -> 121
      [] OTHER   -> 127

\* s < t for Python strings (lexicographic on the characters' codes)
RECURSIVE StrLess(_, _)
StrLess(s, t) ==
    IF t = <<>> THEN FALSE
    ELSE IF s = <<>> THEN TRUE
    ELSE IF Ord(Head(s)) # Ord(Head(t)) THEN Ord(Head(s)) < Ord(Head(t))
    ELSE StrLess(Tail(s), Tail(t))

\* s.rstrip(): the trailing whitespace characters removed
RECURSIVE rstrip(_)
rstrip(s) ==
    IF s = <<>> THEN <<>>
    ELSE IF s[Len(s)] \in Whitespace THEN rstrip(SubSeq(s, 1, Len(s) - 1))
    ELSE s

\* the index of the first sep in s, 0 when there is none
RECURSIVE FindFrom(_, _, _)
FindFrom(s, sep, i) ==
    IF i > Len(s) THEN 0
    ELSE IF s[i] = sep THEN i
    ELSE FindFrom(s, sep, i + 1)

\* s.split(sep, 1): a list of one or two strings
split1(s, sep) ==
    LET i == FindFrom(s, sep, 1)
    IN  IF i = 0 THEN <<s>>
        ELSE <<SubSeq(s, 1, i - 1), SubSeq(s, i + 1, Len(s))>>

\* s.startswith(prefix)
startswith(s, prefix) ==
    /\ Len(s) >= Len(prefix)
    /\ SubSeq(s, 1, Len(prefix)) = prefix

Digit(d) ==
    CASE d = 0 -> "0" [] d = 1 -> "1" [] d = 2 -> "2" [] d = 3 -> "3"
      [] d = 4 -> "4" [] d = 5 -> "5" [] d = 6 -> "6" [] d = 7 -> "7"
      [] d = 8 -> "8" [] d = 9 -> "9"

\* '%d' % n for a natural number n
RECURSIVE DecStr(_)
DecStr(n) ==
    IF n < 10 THEN <<Digit(n)>>
    ELSE Append(DecStr(n \div 10), Digit(n % 10))

\* str(x) of a value a user function returns: the model holds such a value as
\* its string, except None
str(x) == IF x = None THEN <<"N", "o", "n", "e">> ELSE x

VARIABLES
    \* a worker process running a task (prince/job.py)
    task,      \* the worker's task type: "pmapper" or "preducer" ("" : not a worker)
    stdin,     \* the lines on the worker's standard input
    pos,       \* how many of them the wrapper has consumed
    key,       \* mapper_wrapper's local 'key'
    calls,     \* the invocations of the user's function so far
    stdout,    \* the lines printed so far
    pc,        \* "shuffle" (a Job's reducer waits for its input), "run",
               \* "done", or "crashed" (an exception left the wrapper)
    mapout,    \* the lines the map tasks of the Job printed, in arrival order
    \* parameters from the driver to a worker (prince.py)
    parameters,      \* the dictionary the caller passes to run()
    passed,          \* its contents when run() was called
    dtrace,          \* filename_trace in the driver process
    cmd,             \* the words of command_mapper and command_reducer
    worker,          \* the command the worker process was started from
    argv,            \* sys.argv of the worker
    params,          \* the global 'params' of the worker
    filename_trace,  \* filename_trace in the worker
    tasktype,        \* what get_task() returned in init()
    taskname,
    got,             \* the last get_parameters(name) of the task: <<name, value>>
    ppc,             \* "driver", "submitted", "started", "task"
    \* a file of records on the DFS (prince.py)
    content,         \* the argument of dfs_write
    dfsfile,         \* the characters of the file
    readback,        \* the items read_input_reducer yields from it
    dpc,             \* "start", "written", "read"
    \* the iteration controller of an example program (examples/)
    prog,            \* "dijkstra", "pagerank" or "mergesort"
    nargs,           \* len(sys.argv)
    arg_max,         \* the iteration_max argument, where the program reads it
    arg_start,       \* the iteration_start argument, where the program reads it
    iteration_max,
    iteration,
    stop,
    current,         \* the '..._current' file names, by kind
    previous,        \* the '..._previous' file names, by kind
    written,         \* the names written on the DFS so far in the run
    jobs,            \* the Jobs submitted with run(), in order
    cpc,             \* "start", "loop", the Job of the round to run next,
                     \* "usage", "exit", "crashed"
    \* a run of an example program on its data (examples/)
    files,           \* the DFS: the lines of the files of each name
    graph,           \* the graph file of dijkstra.py: the adjacency lists
    source,          \* the source_node argument of dijkstra.py
    job_options,     \* the parameters of the program's Jobs, as a worker
                     \* reads them
    jobfns,          \* a single Job: the names of its map and reduce functions
    flags,           \* what the controller has read after each round
    \* worker processes of one run whose tasks may fail (prince.py)
    procs,           \* each worker: where it is in init(), and 'errno' of
                     \* get_errorfile
    preexisting,     \* the suffixes k for which tracefile+k was on the DFS
                     \* before the run
    puts             \* the dfs_write calls of handle_exception, in order

wvars == <<task, stdin, pos, key, calls, stdout, pc, mapout>>
pvars == <<parameters, passed, dtrace, cmd, worker, argv, params, filename_trace,
           tasktype, taskname, got, ppc>>
dvars == <<content, dfsfile, readback, dpc>>
cvars == <<prog, nargs, arg_max, arg_start, iteration_max, iteration, stop,
           current, previous, written, jobs, cpc>>
evars == <<files, graph, source, job_options, jobfns, flags>>
tvars == <<procs, preexisting, puts>>
vars  == <<wvars, pvars, dvars, cvars, evars, tvars>>

\* what the actions of one part leave alone
notWorker     == <<pvars, dvars, cvars, evars, tvars>>
notParams     == <<wvars, dvars, cvars, evars, tvars>>
notDfs        == <<wvars, pvars, cvars, evars, tvars>>
notController == <<wvars, pvars, dvars, evars, tvars>>
notRun        == <<wvars, pvars, dvars, tvars>>
notTrace      == <<wvars, pvars, dvars, cvars, evars>>

(***************************************************************************)
(* What a user function returns: nothing (None, or a generator function    *)
(* is not what returns None: a plain 'return'), a list of pairs, a         *)
(* generator of pairs, or one bare 2-tuple.  "pairs" holds the pairs in    *)
(* emission order; for a bare tuple it holds that one pair.                *)
(***************************************************************************)
ReturnsNone == [kind |-> "none", pairs |-> <<>>]
List(ps)    == [kind |-> "list", pairs |-> ps]
Gen(ps)     == [kind |-> "gen", pairs |-> ps]
Tuple(p)    == [kind |-> "tuple", pairs |-> <<p>>]

\* 'if pairs:' -- None and the empty list are false, a generator object and a
\* 2-tuple are true
Truthy(ret) ==
    CASE ret.kind = "none"  -> FALSE
      [] ret.kind = "list"  -> ret.pairs # <<>>
      [] ret.kind = "gen"   -> TRUE
      [] ret.kind = "tuple" -> TRUE

PairsOfFirst(ret) ==
    IF Truthy(ret) /\ ret.pairs # <<>> THEN <<ret.pairs[1]>> ELSE <<>>

\* 'if isinstance(pairs, tuple): pairs = [pairs]', then the pairs the for loop
\* visits; none when 'if pairs:' is false
PairsOf(ret) ==
    IF Truthy(ret) THEN ret.pairs ELSE <<>>

\* print '%s%s%s' % (str(k), separator, str(v).rstrip())
FormatLine(k, v) == str(k) \o <<TAB>> \o rstrip(str(v))

NextKeyPerLine(k, n) == k + 1

\* 'key += 1' in the body of 'for (key_m, value_m) in pairs': the key after an
\* invocation that printed n pairs
NextKey(k, n) == k + n

\* the lines mapper_wrapper prints for one invocation's pairs; a pair whose key
\* is None gets the running key
MapperPrint(pairs, k) ==
    [i \in 1..Len(pairs) |->
        FormatLine(IF pairs[i][1] = None THEN DecStr(k + (i - 1)) ELSE pairs[i][1],
                   pairs[i][2])]

\* the lines reducer_wrapper prints for one invocation's pairs
ReducerPrint(pairs) ==
    [i \in 1..Len(pairs) |-> FormatLine(pairs[i][1], pairs[i][2])]

(***************************************************************************)
(* mapper_wrapper: one iteration of 'for line in data'.                    *)
(***************************************************************************)
MapperStep(ret) ==
    /\ task = "pmapper" /\ pc = "run"
    /\ pos < Len(stdin)
    /\ LET line  == stdin[pos + 1]
           pairs == PairsOf(ret)
       IN  /\ calls' = Append(calls, [key |-> DecStr(key), value |-> rstrip(line),
                                      ret |-> ret, error |-> "none"])
           /\ stdout' = stdout \o MapperPrint(pairs, key)
           /\ key' = NextKey(key, Len(pairs))
    /\ pos' = pos + 1
    /\ UNCHANGED <<task, stdin, pc, mapout>>
    /\ UNCHANGED notWorker

(***************************************************************************)
(* reducer_wrapper: read_input_reducer, groupby and valuesof.              *)
(***************************************************************************)
\* read_input_reducer: line.rstrip().split(separator, 1)
ParseLine(line) == split1(rstrip(line), TAB)

\* groupby(data, itemgetter(0)): the last line of the group that starts at
\* line i, the run of consecutive items with the same item[0]
RECURSIVE GroupEnd(_, _)
GroupEnd(lines, i) ==
    IF i < Len(lines) /\ ParseLine(lines[i + 1])[1] = ParseLine(lines[i])[1]
    THEN GroupEnd(lines, i + 1)
    ELSE i

\* valuesof: 'for k, v in items: yield v' -- the values yielded until an item
\* that is not a pair raises ValueError
RECURSIVE ValuesOf(_, _, _)
ValuesOf(lines, i, j) ==
    IF i > j \/ Len(ParseLine(lines[i])) # 2 THEN <<>>
    ELSE <<ParseLine(lines[i])[2]>> \o ValuesOf(lines, i + 1, j)

Unpackable(lines, i, j) ==
    \A n \in i..j : Len(ParseLine(lines[n])) = 2

\* One iteration of 'for (key, items) in groupby(...)': the user's function
\* consumes the values and returns ret.  When an item cannot be unpacked the
\* ValueError reaches the user's function, which either catches it (and
\* returns ret all the same) or lets it leave the wrapper.
ReducerStep(ret, caught) ==
    /\ task = "preducer" /\ pc = "run"
    /\ pos < Len(stdin)
    /\ LET first == pos + 1
           last  == GroupEnd(stdin, first)
           ok    == Unpackable(stdin, first, last)
       IN  /\ calls' = Append(calls, [key |-> ParseLine(stdin[first])[1],
                                      value |-> ValuesOf(stdin, first, last),
                                      ret |-> ret,
                                      error |-> IF ok THEN "none"
                                                ELSE IF caught THEN "caught"
                                                ELSE "raised"])
           /\ IF ok \/ caught
              THEN /\ stdout' = stdout \o ReducerPrint(PairsOf(ret))
                   /\ pos' = last
                   /\ pc' = pc
              ELSE /\ pc' = "crashed"
                   /\ UNCHANGED <<stdout, pos>>
    /\ UNCHANGED <<task, stdin, key, mapout>>
    /\ UNCHANGED notWorker

\* the input is exhausted: the wrapper returns and init() calls sys.exit(0)
WorkerExit ==
    /\ task \in {"pmapper", "preducer"} /\ pc = "run"
    /\ pos = Len(stdin)
    /\ pc' = "done"
    /\ UNCHANGED <<task, stdin, pos, key, calls, stdout, mapout>>
    /\ UNCHANGED notWorker

(***************************************************************************)
(* The inputs of a worker.                                                 *)
(***************************************************************************)
MaxLines   == 3     \* lines on a mapper's standard input
MaxRecords == 3     \* records on a reducer's standard input

\* the sequences of at most n elements of S
SeqsUpTo(S, n) == UNION {[1..m -> S] : m \in 0..n}

\* lines of an input file, as read_input_mapper yields them
InputLines == { <<"a", NL>>, <<"a", SP, "b", SP, NL>> }

\* keys and values of the records a reducer reads: what a mapper_wrapper
\* printed (a value already rstripped, possibly empty), one record per line
RecordKeys   == { <<"a">>, <<"b">> }
RecordValues == { <<>>, <<"x">>, <<"x", SP, "y">> }

\* a record as it reaches the reducer's standard input
RecordLine(k, v) == k \o <<TAB>> \o v \o <<NL>>

\* records with equal keys are adjacent
Adjacent(recs) ==
    \A i, j \in 1..Len(recs) :
        (i < j /\ recs[i][1] = recs[j][1]) =>
            \A n \in i..j : recs[n][1] = recs[i][1]

ReducerInputs ==
    { [i \in 1..Len(recs) |-> RecordLine(recs[i][1], recs[i][2])] :
        recs \in { r \in SeqsUpTo(RecordKeys \X RecordValues, MaxRecords) : Adjacent(r) } }

\* what the user's function may return for one invocation
Returns ==
    { ReturnsNone,
      List(<<>>),
      List(<< <<<<"a">>, <<"x">>>> >>),
      List(<< <<<<"b">>, <<"y", SP>>>>, <<<<"a">>, <<>>>> >>),
      Gen(<<>>),
      Gen(<< <<None, <<"x">>>>, <<<<"a">>, <<"y">>>> >>),
      Tuple(<<<<"b">>, <<"x">>>>) }

WorkerInit ==
    /\ task \in {"pmapper", "preducer"}
    /\ stdin \in (IF task = "pmapper" THEN SeqsUpTo(InputLines, MaxLines)
                                       ELSE ReducerInputs)
    /\ pos = 0
    /\ key = 0
    /\ calls = <<>>
    /\ stdout = <<>>
    /\ pc = "run"
    /\ mapout = <<>>
    \* the other parts have not started
    /\ parameters = EmptyDict
    /\ passed = EmptyDict
    /\ dtrace = None
    /\ cmd = <<>>
    /\ worker = ""
    /\ argv = <<>>
    /\ params = EmptyDict
    /\ filename_trace = None
    /\ tasktype = None
    /\ taskname = None
    /\ got = <<>>
    /\ ppc = ""
    /\ content = <<>>
    /\ dfsfile = <<>>
    /\ readback = <<>>
    /\ dpc = ""
    /\ prog = ""
    /\ nargs = 0
    /\ arg_max = 0
    /\ arg_start = 0
    /\ iteration_max = 0
    /\ iteration = 0
    /\ stop = 0
    /\ current = <<>>
    /\ previous = <<>>
    /\ written = {}
    /\ jobs = <<>>
    /\ cpc = ""
    /\ files = EmptyDict
    /\ graph = <<>>
    /\ source = <<>>
    /\ job_options = EmptyDict
    /\ jobfns = <<>>
    /\ flags = <<>>
    /\ procs = <<>>
    /\ preexisting = {}
    /\ puts = <<>>

WorkerNext ==
    \/ \E ret \in Returns : MapperStep(ret)
    \/ \E ret \in Returns, caught \in BOOLEAN : ReducerStep(ret, caught)
    \/ WorkerExit

(***************************************************************************)
(* A Job: the lines its map tasks printed are shuffled to the reducer.     *)
(* The shuffle is Hadoop's: it cuts each line at the first tab into key    *)
(* and value, sorts the records by key (the values of a key keep their     *)
(* order of arrival) and writes each record to the reducer's standard      *)
(* input as key, tab, value, newline.                                      *)
(***************************************************************************)
MaxEmitted == 3     \* pairs the map stage of a Job emits

\* keys and values of the pairs a map function emits
EmittedKeys   == { <<"a", SP>>, <<"a", SP, SP>>, <<"1", "0">>, <<"9">> }
EmittedValues == { <<>>, <<"x">> }

\* what mapper_wrapper prints for them, in some order of arrival
MapOutputs ==
    { [i \in 1..Len(ps) |-> FormatLine(ps[i][1], ps[i][2])] :
        ps \in SeqsUpTo(EmittedKeys \X EmittedValues, MaxEmitted) }

\* a sorted sequence of records with one more record, after the records whose
\* key is not greater
RECURSIVE InsertByKey(_, _)
InsertByKey(sorted, rec) ==
    IF sorted = <<>> THEN <<rec>>
    ELSE IF StrLess(rec[1], Head(sorted)[1]) THEN <<rec>> \o sorted
    ELSE <<Head(sorted)>> \o InsertByKey(Tail(sorted), rec)

RECURSIVE SortByKey(_)
SortByKey(recs) ==
    IF recs = <<>> THEN <<>>
    ELSE InsertByKey(SortByKey(SubSeq(recs, 1, Len(recs) - 1)), recs[Len(recs)])

\* the reducer's input for the printed lines
ShuffleSort(lines) ==
    LET recs   == [i \in 1..Len(lines) |-> split1(lines[i], TAB)]
        sorted == SortByKey(recs)
    IN  [i \in 1..Len(sorted) |-> RecordLine(sorted[i][1], sorted[i][2])]

Shuffle ==
    /\ task = "preducer" /\ pc = "shuffle"
    /\ stdin' = ShuffleSort(mapout)
    /\ pc' = "run"
    /\ UNCHANGED <<task, pos, key, calls, stdout, mapout>>
    /\ UNCHANGED notWorker

\* what the reduce function of the Job may return for one invocation
JobReturns == { ReturnsNone, Tuple(<<<<"a">>, <<"x">>>>) }

JobInit ==
    /\ task = "preducer"
    /\ mapout \in MapOutputs
    /\ stdin = <<>>
    /\ pos = 0
    /\ key = 0
    /\ calls = <<>>
    /\ stdout = <<>>
    /\ pc = "shuffle"
    \* the other parts have not started
    /\ parameters = EmptyDict
    /\ passed = EmptyDict
    /\ dtrace = None
    /\ cmd = <<>>
    /\ worker = ""
    /\ argv = <<>>
    /\ params = EmptyDict
    /\ filename_trace = None
    /\ tasktype = None
    /\ taskname = None
    /\ got = <<>>
    /\ ppc = ""
    /\ content = <<>>
    /\ dfsfile = <<>>
    /\ readback = <<>>
    /\ dpc = ""
    /\ prog = ""
    /\ nargs = 0
    /\ arg_max = 0
    /\ arg_start = 0
    /\ iteration_max = 0
    /\ iteration = 0
    /\ stop = 0
    /\ current = <<>>
    /\ previous = <<>>
    /\ written = {}
    /\ jobs = <<>>
    /\ cpc = ""
    /\ files = EmptyDict
    /\ graph = <<>>
    /\ source = <<>>
    /\ job_options = EmptyDict
    /\ jobfns = <<>>
    /\ flags = <<>>
    /\ procs = <<>>
    /\ preexisting = {}
    /\ puts = <<>>

JobNext ==
    \/ Shuffle
    \/ \E ret \in JobReturns, caught \in BOOLEAN : ReducerStep(ret, caught)
    \/ WorkerExit


(***************************************************************************)
(* Parameters across the process boundary (prince.py).  The driver's run() *)
(* flattens the parameters dictionary into the mapper and reducer          *)
(* commands; Hadoop starts a worker from a command, and the worker's       *)
(* init() and get_parameters() read them back from sys.argv.               *)
(*                                                                         *)
(* A token is a string; a name or a value that the code never looks into   *)
(* is held as one character of it, so '--graph' is <<"-", "-", "graph">>.  *)
(***************************************************************************)
option_mapper  == <<"pmapper">>
option_reducer == <<"preducer">>
option_trace   == <<"trace">>
DASHES         == <<"-", "-">>
QUOTE          == "\""

IsOption(tok) == startswith(tok, DASHES)

\* get_parameters_all: every '--name' of argv with the token that follows it,
\* or None when there is none or it starts with '-'; a later '--name'
\* replaces an earlier one
ParametersAll(av) ==
    LET opts     == {i \in 1..Len(av) : IsOption(av[i])}
        name(i)  == SubSeq(av[i], 3, Len(av[i]))
        content_at(i) == IF i + 1 <= Len(av) /\ ~startswith(av[i + 1], <<"-">>)
                      THEN av[i + 1] ELSE None
        last(n)  == CHOOSE i \in opts :
                        /\ name(i) = n
                        /\ \A j \in opts : name(j) = n => j <= i
    IN  [n \in {name(i) : i \in opts} |-> content_at(last(n))]

\* the dictionary without the given names
Without(d, names) == [n \in DOMAIN d \ names |-> d[n]]

\* get_parameters: the cache after the call ('if not params:' fills it and
\* deletes the two task flags)
ParamsCache(cache, av) ==
    IF DOMAIN cache = {}
    THEN Without(ParametersAll(av), {option_mapper, option_reducer})
    ELSE cache

\* get_parameters(name) with that cache
Lookup(cache, name) == IF name \in DOMAIN cache THEN cache[name] ELSE None

\* get_task: the first of pmapper, preducer among the parameters
GetTask(av) ==
    LET all == ParametersAll(av)
    IN  IF option_mapper \in DOMAIN all THEN <<option_mapper, all[option_mapper]>>
        ELSE IF option_reducer \in DOMAIN all THEN <<option_reducer, all[option_reducer]>>
        ELSE <<None, None>>

\* cleanup_parameters: the indices removed from argv, scanning from index i
\* with the flag is_value
RECURSIVE CleanupFrom(_, _, _, _)
CleanupFrom(av, names, i, is_value) ==
    IF i > Len(av) THEN <<>>
    ELSE IF (IsOption(av[i]) /\ SubSeq(av[i], 3, Len(av[i])) \in names) \/ is_value
         THEN CleanupFrom(av, names, i + 1, ~is_value)
         ELSE <<av[i]>> \o CleanupFrom(av, names, i + 1, is_value)

cleanup_parameters(av, names) == CleanupFrom(av, names, 1, FALSE)

\* a parameter's value: one string, or a list of strings
Single(v) == [list |-> FALSE, vals |-> <<v>>]
Many(vs)  == [list |-> TRUE, vals |-> vs]

\* parameter_dict_to_command for the items in the order the dictionary
\* yields them: '--' + key and the quoted value, once per value
RECURSIVE OptionsOfValues(_, _)
OptionsOfValues(k, vals) ==
    IF vals = <<>> THEN <<>>
    ELSE <<DASHES \o k, <<QUOTE>> \o Head(vals) \o <<QUOTE>>>>
         \o OptionsOfValues(k, Tail(vals))

RECURSIVE parameter_dict_to_command(_, _)
parameter_dict_to_command(d, order) ==
    IF order = <<>> THEN <<>>
    ELSE OptionsOfValues(Head(order), d[Head(order)].vals)
         \o parameter_dict_to_command(d, Tail(order))

\* the orders in which a dictionary may yield its keys
Orders(S) == {o \in [1..Cardinality(S) -> S] : \A i, j \in DOMAIN o : i # j => o[i] # o[j]}

\* the words of 'python -m <program> --<option> <name> <options>' after
\* '-m <program>'
Command(option, name, options) == <<DASHES \o option, name>> \o options

\* the process boundary: a word in double quotes arrives without them
Unquote(w) ==
    IF Len(w) >= 2 /\ w[1] = QUOTE /\ w[Len(w)] = QUOTE
    THEN SubSeq(w, 2, Len(w) - 1) ELSE w

program_name == <<"program.py">>
mapper_name  == <<"m">>
reducer_name == <<"r">>

\* run(): adds the trace parameter, builds the two commands
Run(order) ==
    /\ ppc = "driver"
    /\ LET ps == IF dtrace # None /\ dtrace # <<>>
                 THEN (option_trace :> Single(dtrace)) @@ parameters
                 ELSE parameters
       IN  /\ order \in Orders(DOMAIN ps)
           /\ parameters' = ps
           /\ cmd' = [t \in {"pmapper", "preducer"} |->
                        Command(IF t = "pmapper" THEN option_mapper ELSE option_reducer,
                                IF t = "pmapper" THEN mapper_name ELSE reducer_name,
                                parameter_dict_to_command(ps, order))]
    /\ passed' = parameters
    /\ ppc' = "submitted"
    /\ UNCHANGED <<dtrace, worker, argv, params, filename_trace, tasktype, taskname, got>>
    /\ UNCHANGED notParams

\* Hadoop starts a map or reduce task from its command
StartWorker(t) ==
    /\ ppc = "submitted"
    /\ worker' = t
    /\ argv' = <<program_name>> \o [i \in 1..Len(cmd[t]) |-> Unquote(cmd[t][i])]
    /\ params' = EmptyDict
    /\ ppc' = "started"
    /\ UNCHANGED <<parameters, passed, dtrace, cmd, filename_trace, tasktype, taskname, got>>
    /\ UNCHANGED notParams

\* init() in the worker, up to the call of the task
init ==
    /\ ppc = "started"
    /\ LET cache == ParamsCache(params, argv)
           trace == Lookup(cache, option_trace)
           av    == IF trace # None /\ trace # <<>>
                    THEN cleanup_parameters(argv, {option_trace}) ELSE argv
           t     == GetTask(av)
       IN  /\ params' = cache
           /\ filename_trace' = trace
           /\ argv' = av
           /\ tasktype' = t[1]
           /\ taskname' = t[2]
    /\ ppc' = "task"
    /\ UNCHANGED <<parameters, passed, dtrace, cmd, worker, got>>
    /\ UNCHANGED notParams

\* the user's map or reduce function calls get_parameters(name)
GetParameters(name) ==
    /\ ppc = "task"
    /\ LET cache == ParamsCache(params, argv)
       IN  /\ params' = cache
           /\ got' = <<name, Lookup(cache, name)>>
    /\ UNCHANGED <<parameters, passed, dtrace, cmd, worker, argv, filename_trace,
                   tasktype, taskname, ppc>>
    /\ UNCHANGED notParams

\* names and values of the parameters a caller passes
ParamNames  == { <<"graph">>, <<"source">>, option_mapper, option_trace }
ParamValues == { Single(<<"v">>), Single(<<"-", "1">>), Many(<< <<"v">>, <<"w">> >>) }
AskedNames  == ParamNames \cup {option_reducer}

ParamsInit ==
    /\ parameters \in UNION {[D -> ParamValues] : D \in SUBSET ParamNames}
    /\ passed = EmptyDict
    /\ dtrace \in {None, <<"t">>}
    /\ cmd = <<>>
    /\ worker = ""
    /\ argv = <<>>
    /\ params = EmptyDict
    /\ filename_trace = None
    /\ tasktype = None
    /\ taskname = None
    /\ got = <<>>
    /\ ppc = "driver"
    \* the other parts have not started
    /\ task = ""
    /\ stdin = <<>>
    /\ pos = 0
    /\ key = 0
    /\ calls = <<>>
    /\ stdout = <<>>
    /\ pc = ""
    /\ mapout = <<>>
    /\ content = <<>>
    /\ dfsfile = <<>>
    /\ readback = <<>>
    /\ dpc = ""
    /\ prog = ""
    /\ nargs = 0
    /\ arg_max = 0
    /\ arg_start = 0
    /\ iteration_max = 0
    /\ iteration = 0
    /\ stop = 0
    /\ current = <<>>
    /\ previous = <<>>
    /\ written = {}
    /\ jobs = <<>>
    /\ cpc = ""
    /\ files = EmptyDict
    /\ graph = <<>>
    /\ source = <<>>
    /\ job_options = EmptyDict
    /\ jobfns = <<>>
    /\ flags = <<>>
    /\ procs = <<>>
    /\ preexisting = {}
    /\ puts = <<>>

ParamsNext ==
    \/ \E order \in Orders(ParamNames) \cup UNION {Orders(D) : D \in SUBSET ParamNames} :
           Run(order)
    \/ \E t \in {"pmapper", "preducer"} : StartWorker(t)
    \/ init
    \/ \E name \in AskedNames : GetParameters(name)

(***************************************************************************)
(* dfs_write of a sequence of pairs, and read_input_reducer over the lines *)
(* of the file it makes (prince.py).                                       *)
(***************************************************************************)
MaxPairs == 2     \* pairs given to one dfs_write

DfsKeys   == { <<"a">>, <<"b">> }
DfsValues == { <<>>, <<"x">>, <<"x", SP>> }

\* sep.join(strings)
RECURSIVE Join(_, _)
Join(strings, sep) ==
    IF strings = <<>> THEN <<>>
    ELSE IF Len(strings) = 1 THEN strings[1]
    ELSE strings[1] \o sep \o Join(Tail(strings), sep)

\* dfs_write: something that is not a list is made a list of one item; the
\* items are joined as key, tab, value with newlines between them, and
\* 'echo "<content>"' ends the text with a newline
dfs_write(c) ==
    LET items == IF c.list THEN c.pairs ELSE <<c.pairs[1]>>
    IN  Join([i \in 1..Len(items) |-> str(items[i][1]) \o <<TAB>> \o str(items[i][2])],
             <<NL>>)
        \o <<NL>>

\* 'for line in file': the lines of a text, each with its newline
RECURSIVE FileLines(_)
FileLines(text) ==
    IF text = <<>> THEN <<>>
    ELSE LET n == FindFrom(text, NL, 1)
         IN  IF n = 0 THEN <<text>>
             ELSE <<SubSeq(text, 1, n)>> \o FileLines(SubSeq(text, n + 1, Len(text)))

\* read_input_reducer over the file
read_input_reducer(text) ==
    LET lines == FileLines(text)
    IN  [i \in 1..Len(lines) |-> ParseLine(lines[i])]

DfsWrite ==
    /\ dpc = "start"
    /\ dfsfile' = dfs_write(content)
    /\ dpc' = "written"
    /\ UNCHANGED <<content, readback>>
    /\ UNCHANGED notDfs

ReadInputReducer ==
    /\ dpc = "written"
    /\ readback' = read_input_reducer(dfsfile)
    /\ dpc' = "read"
    /\ UNCHANGED <<content, dfsfile>>
    /\ UNCHANGED notDfs

DfsInit ==
    /\ content \in
         { [list |-> TRUE, pairs |-> ps] : ps \in SeqsUpTo(DfsKeys \X DfsValues, MaxPairs) }
         \cup { [list |-> FALSE, pairs |-> <<pr>>] : pr \in DfsKeys \X DfsValues }
    /\ dfsfile = <<>>
    /\ readback = <<>>
    /\ dpc = "start"
    \* the other parts have not started
    /\ task = ""
    /\ stdin = <<>>
    /\ pos = 0
    /\ key = 0
    /\ calls = <<>>
    /\ stdout = <<>>
    /\ pc = ""
    /\ mapout = <<>>
    /\ parameters = EmptyDict
    /\ passed = EmptyDict
    /\ dtrace = None
    /\ cmd = <<>>
    /\ worker = ""
    /\ argv = <<>>
    /\ params = EmptyDict
    /\ filename_trace = None
    /\ tasktype = None
    /\ taskname = None
    /\ got = <<>>
    /\ ppc = ""
    /\ prog = ""
    /\ nargs = 0
    /\ arg_max = 0
    /\ arg_start = 0
    /\ iteration_max = 0
    /\ iteration = 0
    /\ stop = 0
    /\ current = <<>>
    /\ previous = <<>>
    /\ written = {}
    /\ jobs = <<>>
    /\ cpc = ""
    /\ files = EmptyDict
    /\ graph = <<>>
    /\ source = <<>>
    /\ job_options = EmptyDict
    /\ jobfns = <<>>
    /\ flags = <<>>
    /\ procs = <<>>
    /\ preexisting = {}
    /\ puts = <<>>

DfsNext ==
    \/ DfsWrite
    \/ ReadInputReducer

(***************************************************************************)
(* The iteration controllers: the '__main__' sections of dijkstra.py,      *)
(* pagerank.py and mergesort.py, as far as they name files and submit      *)
(* Jobs.  What a Job computes is not modelled here: the flag a controller  *)
(* reads from the DFS after a round is any value.                          *)
(***************************************************************************)
MaxRounds == 4     \* rounds of a run that has no iteration_max

maxint == 2147483647

ArgMaxes  == {3, 5}
ArgStarts == {1, 2, 3}

RECURSIVE PadTo(_, _)
PadTo(digits, width) ==
    IF Len(digits) >= width THEN digits ELSE PadTo(<<"0">> \o digits, width)

\* base % n where base ends in '%04d'
FileName(base, n) == <<base>> \o PadTo(DecStr(n), 4)

Job(mapper, inputs, output) ==
    [mapper |-> mapper, inputs |-> inputs, output |-> output,
     iteration |-> iteration, existed |-> output \in written]

\* prince.run(mapper, reducer, inputs, output, ...)
Submit(mapper, inputs, output) ==
    /\ jobs' = Append(jobs, Job(mapper, inputs, output))
    /\ written' = written \cup {output}

\* the argument count is not the one the program asks for: usage, exit(0)
Usage ==
    /\ cpc = "start"
    /\ \/ prog = "dijkstra" /\ nargs # 3
       \/ prog = "pagerank" /\ nargs < 5
       \/ prog = "mergesort" /\ nargs # 3
    /\ cpc' = "usage"
    /\ UNCHANGED <<prog, nargs, arg_max, arg_start, iteration_max, iteration, stop,
                   current, previous, written, jobs>>
    /\ UNCHANGED notController

\* dijkstra.py up to the loop
DijkstraStart ==
    /\ prog = "dijkstra" /\ cpc = "start"
    /\ nargs = 3
    /\ LET istart == IF nargs = 5 THEN arg_start ELSE 1
           f0     == FileName("frontier", istart - 1)
           fl0    == FileName("filter", istart - 1)
       IN  /\ iteration_max' = IF nargs = 4 THEN arg_max ELSE maxint
           /\ iteration' = istart
           /\ current' = [frontier |-> f0, filter |-> fl0, termination |-> None]
           /\ written' = written \cup {f0, fl0}
    /\ previous' = [frontier |-> None, filter |-> None, termination |-> None]
    /\ stop' = 0
    /\ cpc' = "loop"
    /\ UNCHANGED <<prog, nargs, arg_max, arg_start, jobs>>
    /\ UNCHANGED notController

\* a round starts: the file names, then the frontier Job
DijkstraFrontier ==
    /\ prog = "dijkstra" /\ cpc = "loop"
    /\ stop = 0 /\ iteration < iteration_max
    /\ iteration <= MaxRounds
    /\ previous' = [frontier |-> current.frontier, filter |-> current.filter,
                    termination |-> None]
    /\ current' = [frontier |-> FileName("frontier", iteration),
                   filter |-> FileName("filter", iteration),
                   termination |-> FileName("termination", iteration)]
    /\ Submit("frontier_mapper", {current.filter}, FileName("frontier", iteration))
    /\ cpc' = "filter"
    /\ UNCHANGED <<prog, nargs, arg_max, arg_start, iteration_max, iteration, stop>>
    /\ UNCHANGED notController

DijkstraFilter ==
    /\ prog = "dijkstra" /\ cpc = "filter"
    /\ Submit("filter_mapper", {previous.frontier, current.frontier}, current.filter)
    /\ cpc' = "termination"
    /\ UNCHANGED <<prog, nargs, arg_max, arg_start, iteration_max, iteration, stop,
                   current, previous>>
    /\ UNCHANGED notController

\* the termination Job, and the flag read from its output
DijkstraTermination(flag) ==
    /\ prog = "dijkstra" /\ cpc = "termination"
    /\ Submit("termination_mapper", {current.filter}, current.termination)
    /\ stop' = flag
    /\ iteration' = iteration + 1
    /\ cpc' = "loop"
    /\ UNCHANGED <<prog, nargs, arg_max, arg_start, iteration_max, current, previous>>
    /\ UNCHANGED notController

\* pagerank.py up to the loop
PagerankStart ==
    /\ prog = "pagerank" /\ cpc = "start"
    /\ nargs >= 5
    /\ LET istart == IF nargs >= 7 THEN arg_start ELSE 1
           p0     == FileName("output_pagerank", istart)
       IN  /\ iteration_max' = IF nargs >= 6 THEN arg_max ELSE maxint
           /\ current' = [pagerank |-> p0, term |-> None]
           /\ written' = IF istart = 1 THEN written \cup {p0} ELSE written
           /\ iteration' = IF istart = 1 THEN istart + 1 ELSE istart
    /\ previous' = [pagerank |-> None, term |-> None]
    /\ stop' = 0
    /\ cpc' = "loop"
    /\ UNCHANGED <<prog, nargs, arg_max, arg_start, jobs>>
    /\ UNCHANGED notController

PagerankJob ==
    /\ prog = "pagerank" /\ cpc = "loop"
    /\ stop = 0 /\ iteration < iteration_max
    /\ iteration <= MaxRounds
    /\ previous' = [pagerank |-> current.pagerank, term |-> None]
    /\ current' = [pagerank |-> FileName("output_pagerank", iteration),
                   term |-> FileName("output_term", iteration)]
    /\ Submit("pagerank_mapper", {current.pagerank}, FileName("output_pagerank", iteration))
    /\ cpc' = "term"
    /\ UNCHANGED <<prog, nargs, arg_max, arg_start, iteration_max, iteration, stop>>
    /\ UNCHANGED notController

PagerankTerm(flag) ==
    /\ prog = "pagerank" /\ cpc = "term"
    /\ Submit("term_mapper", {current.pagerank}, current.term)
    /\ stop' = flag
    /\ iteration' = iteration + 1
    /\ cpc' = "loop"
    /\ UNCHANGED <<prog, nargs, arg_max, arg_start, iteration_max, current, previous>>
    /\ UNCHANGED notController

\* 'while not stop and iteration < iteration_max' ends
LoopExit ==
    /\ prog \in {"dijkstra", "pagerank"} /\ cpc = "loop"
    /\ stop # 0 \/ iteration >= iteration_max
    /\ cpc' = "exit"
    /\ UNCHANGED <<prog, nargs, arg_max, arg_start, iteration_max, iteration, stop,
                   current, previous, written, jobs>>
    /\ UNCHANGED notController

\* mergesort.py up to the loop: the Job that makes the initial buckets
MergesortStart ==
    /\ prog = "mergesort" /\ cpc = "start"
    /\ nargs = 3
    /\ Submit("init_mapper", {<<"input">>}, FileName("output", 0))
    /\ stop' = 0
    /\ iteration' = 1
    /\ current' = None
    /\ previous' = None
    /\ cpc' = "loop"
    /\ UNCHANGED <<prog, nargs, arg_max, arg_start, iteration_max>>
    /\ UNCHANGED notController

\* a merge round, and the state read from the last line of its output
MergesortMerge(flag) ==
    /\ prog = "mergesort" /\ cpc = "loop"
    /\ stop = 0
    /\ iteration <= MaxRounds
    /\ previous' = FileName("output", iteration - 1)
    /\ current' = FileName("output", iteration)
    /\ Submit("merge_mapper", {FileName("output", iteration - 1)},
              FileName("output", iteration))
    /\ stop' = flag
    /\ iteration' = iteration + 1
    /\ UNCHANGED <<prog, nargs, arg_max, arg_start, iteration_max, cpc>>
    /\ UNCHANGED notController

\* after the loop: one number per record
MergesortSplit ==
    /\ prog = "mergesort" /\ cpc = "loop"
    /\ stop # 0
    /\ Submit("split_mapper", {current}, <<"output_sorted">>)
    /\ cpc' = "exit"
    /\ UNCHANGED <<prog, nargs, arg_max, arg_start, iteration_max, iteration, stop,
                   current, previous>>
    /\ UNCHANGED notController

ControllerInit ==
    /\ prog \in {"dijkstra", "pagerank", "mergesort"}
    /\ nargs \in 2..7
    /\ arg_max \in ArgMaxes
    /\ arg_start \in ArgStarts
    /\ iteration_max = 0
    /\ iteration = 0
    /\ stop = 0
    /\ current = None
    /\ previous = None
    /\ written = {}
    /\ jobs = <<>>
    /\ cpc = "start"
    \* the other parts have not started
    /\ task = ""
    /\ stdin = <<>>
    /\ pos = 0
    /\ key = 0
    /\ calls = <<>>
    /\ stdout = <<>>
    /\ pc = ""
    /\ mapout = <<>>
    /\ parameters = EmptyDict
    /\ passed = EmptyDict
    /\ dtrace = None
    /\ cmd = <<>>
    /\ worker = ""
    /\ argv = <<>>
    /\ params = EmptyDict
    /\ filename_trace = None
    /\ tasktype = None
    /\ taskname = None
    /\ got = <<>>
    /\ ppc = ""
    /\ content = <<>>
    /\ dfsfile = <<>>
    /\ readback = <<>>
    /\ dpc = ""
    /\ files = EmptyDict
    /\ graph = <<>>
    /\ source = <<>>
    /\ job_options = EmptyDict
    /\ jobfns = <<>>
    /\ flags = <<>>
    /\ procs = <<>>
    /\ preexisting = {}
    /\ puts = <<>>

ControllerNext ==
    \/ Usage
    \/ DijkstraStart
    \/ DijkstraFrontier
    \/ DijkstraFilter
    \/ \E flag \in {0, 1} : DijkstraTermination(flag)
    \/ PagerankStart
    \/ PagerankJob
    \/ \E flag \in {0, 1} : PagerankTerm(flag)
    \/ LoopExit
    \/ MergesortStart
    \/ \E flag \in {0, 1} : MergesortMerge(flag)
    \/ MergesortSplit

(***************************************************************************)
(* Numbers and words as the example programs print and parse them.         *)
(***************************************************************************)
\* str(n) for an integer n
IntStr(n) == IF n < 0 THEN <<"-">> \o DecStr(-n) ELSE DecStr(n)

DigitChars == {"0", "1", "2", "3", "4", "5", "6", "7", "8", "9"}

DigitVal(c) ==
    CASE c = "0" -> 0 [] c = "1" -> 1 [] c = "2" -> 2 [] c = "3" -> 3
      [] c = "4" -> 4 [] c = "5" -> 5 [] c = "6" -> 6 [] c = "7" -> 7
      [] c = "8" -> 8 [] c = "9" -> 9

IsDigits(s) == s # <<>> /\ \A i \in 1..Len(s) : s[i] \in DigitChars

\* int(s) does not raise ValueError
IsInt(s) == IF s # <<>> /\ s[1] = "-" THEN IsDigits(Tail(s)) ELSE IsDigits(s)

RECURSIVE NatVal(_)
NatVal(s) ==
    IF s = <<>> THEN 0
    ELSE NatVal(SubSeq(s, 1, Len(s) - 1)) * 10 + DigitVal(s[Len(s)])

\* int(s) where it does not raise
int(s) == IF s[1] = "-" THEN 0 - NatVal(Tail(s)) ELSE NatVal(s)

\* s.lstrip()
RECURSIVE lstrip(_)
lstrip(s) ==
    IF s = <<>> THEN <<>>
    ELSE IF s[1] \in Whitespace THEN lstrip(Tail(s))
    ELSE s

\* the index of the first whitespace character of s from i on, Len(s) + 1 when
\* there is none
RECURSIVE WordEnd(_, _)
WordEnd(s, i) ==
    IF i > Len(s) THEN i
    ELSE IF s[i] \in Whitespace THEN i
    ELSE WordEnd(s, i + 1)

\* s.split(): the words between runs of whitespace
RECURSIVE split(_)
split(s) ==
    LET t == lstrip(s)
    IN  IF t = <<>> THEN <<>>
        ELSE LET e == WordEnd(t, 1)
             IN  <<SubSeq(t, 1, e - 1)>> \o split(SubSeq(t, e, Len(t)))

\* s.split(None, 1): the first word, and what follows the whitespace after it
split_none_1(s) ==
    LET t == lstrip(s)
    IN  IF t = <<>> THEN <<>>
        ELSE LET e    == WordEnd(t, 1)
                 rest == lstrip(SubSeq(t, e, Len(t)))
             IN  IF rest = <<>> THEN <<SubSeq(t, 1, e - 1)>>
                 ELSE <<SubSeq(t, 1, e - 1), rest>>

\* ' '.join(int_to_str(ints))
RECURSIVE JoinInts(_)
JoinInts(ints) ==
    IF ints = <<>> THEN <<>>
    ELSE IF Len(ints) = 1 THEN IntStr(ints[1])
    ELSE IntStr(ints[1]) \o <<SP>> \o JoinInts(Tail(ints))

\* str_to_int: the integers of the strings, the empty list when one of them
\* is no integer
str_to_int(strings) ==
    IF \A i \in 1..Len(strings) : IsInt(strings[i])
    THEN [i \in 1..Len(strings) |-> int(strings[i])]
    ELSE <<>>

\* sorted(ints)
RECURSIVE InsertInt(_, _)
InsertInt(sortedInts, n) ==
    IF sortedInts = <<>> THEN <<n>>
    ELSE IF n < Head(sortedInts) THEN <<n>> \o sortedInts
    ELSE <<Head(sortedInts)>> \o InsertInt(Tail(sortedInts), n)

RECURSIVE sorted(_)
sorted(ints) ==
    IF ints = <<>> THEN <<>>
    ELSE InsertInt(sorted(SubSeq(ints, 1, Len(ints) - 1)), ints[Len(ints)])

\* min(ints) of a list that is not empty
RECURSIVE min(_)
min(ints) ==
    IF Len(ints) = 1 THEN ints[1]
    ELSE LET m == min(Tail(ints)) IN IF ints[1] <= m THEN ints[1] ELSE m

(***************************************************************************)
(* What a call of a user function does: "ret" is what it returns, with the *)
(* pairs it has yielded, and "raised" tells that an exception left it (for *)
(* a generator, after the pairs of "ret").  The pairs hold the strings     *)
(* that str() makes of the keys and values.                                *)
(***************************************************************************)
Returned(ret) == [ret |-> ret, raised |-> FALSE]
Raised(ps)    == [ret |-> Gen(ps), raised |-> TRUE]

(***************************************************************************)
(* examples/wordcount.py                                                   *)
(***************************************************************************)
\* wc_mapper: 'for word in value.split(): yield word, 1'
wc_mapper(k, value) ==
    LET words == split(value)
    IN  Returned(Gen([i \in 1..Len(words) |-> <<words[i], IntStr(1)>>]))

RECURSIVE SumInts(_)
SumInts(ints) == IF ints = <<>> THEN 0 ELSE Head(ints) + SumInts(Tail(ints))

WcReducerFirst(k, values, ok) ==
    IF ok /\ \A i \in 1..Len(values) : IsInt(values[i])
    THEN Returned(Gen(<< <<k, values[1]>> >>))
    ELSE Returned(Gen(<<>>))

\* wc_reducer: the sum of the values; a ValueError (a value that is no
\* integer, an item valuesof cannot unpack) ends the generator with no pair
wc_reducer(k, values, ok) ==
    IF ok /\ \A i \in 1..Len(values) : IsInt(values[i])
    THEN Returned(Gen(<< <<k, IntStr(SumInts(str_to_int(values)))>> >>))
    ELSE Returned(Gen(<<>>))

(***************************************************************************)
(* examples/dijkstra/dijkstra.py                                           *)
(***************************************************************************)
\* node_info: (node, distance) of a value 'node distance', (None, None) --
\* "none" here -- when the value has not two words or one of them is no
\* integer
node_info(value) ==
    LET w == split(value)
    IN  IF Len(w) = 2 /\ IsInt(w[1]) /\ IsInt(w[2])
        THEN [none |-> FALSE, node |-> int(w[1]), distance |-> int(w[2])]
        ELSE [none |-> TRUE]

\* get_parameters(*args): the value for one name, a tuple of the values
\* otherwise -- the empty tuple for no name
get_parameters(cache, args) ==
    IF Len(args) = 1
    THEN [kind |-> "value", value |-> Lookup(cache, args[1])]
    ELSE [kind |-> "tuple", value |-> [i \in 1..Len(args) |-> Lookup(cache, args[i])]]

\* x[name] for a string name: a TypeError unless x is a dictionary, and
\* get_parameters returns a string, None or a tuple
SubscriptRaises(x) == x.kind \in {"value", "tuple"}

Abs(n) == IF n < 0 THEN 0 - n ELSE n

\* frontier_mapper: the node with its distance, then, for a distance that is
\* not negative, the nodes adjacent to it in the graph one hop further.  The
\* graph's file name is looked up as prince.get_parameters()['graph'][0].
frontier_mapper(k, value, options, adjacency) ==
    LET ni     == node_info(value)
        itself == << <<IntStr(ni.node), IntStr(Abs(ni.distance))>> >>
    IN  IF ni.none THEN Returned(Gen(<<>>))
        ELSE IF ni.distance >= 0
        THEN IF SubscriptRaises(get_parameters(options, <<>>))
             THEN Raised(itself)
             ELSE Returned(Gen(itself \o
                      [i \in 1..Len(adjacency[ni.node]) |->
                          <<IntStr(adjacency[ni.node][i]), IntStr(ni.distance + 1)>>]))
        ELSE Returned(Gen(itself))

\* frontier_reducer: the minimum of the values; nothing on a ValueError
frontier_reducer(node, values, ok) ==
    IF ok /\ \A i \in 1..Len(values) : IsInt(values[i])
    THEN Returned(Gen(<< <<node, IntStr(min(str_to_int(values)))>> >>))
    ELSE Returned(Gen(<<>>))

\* filter_mapper
filter_mapper(k, value) ==
    LET ni == node_info(value)
    IN  IF ni.none THEN Returned(Gen(<<>>))
        ELSE Returned(Gen(<< <<IntStr(ni.node), IntStr(ni.distance)>> >>))

\* filter_reducer: a distance found in one frontier only as it is, a
\* distance that is the same in both negated, the smaller one otherwise
filter_reducer(node, values, ok) ==
    IF ~(ok /\ \A i \in 1..Len(values) : IsInt(values[i]))
    THEN Returned(Gen(<<>>))
    ELSE LET distances == str_to_int(values)
         IN  IF Len(distances) = 1
             THEN Returned(Gen(<< <<node, IntStr(distances[1])>> >>))
             ELSE IF distances[1] = distances[2]
             THEN Returned(Gen(<< <<node, IntStr(0 - distances[1])>> >>))
             ELSE Returned(Gen(<< <<node, IntStr(min(distances))>> >>))

\* termination_mapper: 'yield 0, changed'
termination_mapper(k, value) ==
    LET ni == node_info(value)
    IN  IF ni.none THEN Returned(Gen(<<>>))
        ELSE Returned(Gen(<< <<IntStr(0), IntStr(IF ni.distance <= 0 THEN 0 ELSE 1)>> >>))

\* 'any(int(c) for c in changed)', values taken one at a time: "true" at the
\* first that is not 0, "error" at the first that raises ValueError
RECURSIVE AnyInt(_, _)
AnyInt(values, ok) ==
    IF values = <<>> THEN (IF ok THEN "false" ELSE "error")
    ELSE IF ~IsInt(Head(values)) THEN "error"
    ELSE IF int(Head(values)) # 0 THEN "true"
    ELSE AnyInt(Tail(values), ok)

TerminationReducerKeyZero(k, changed, ok) ==
    IF AnyInt(changed, ok) = "true"
    THEN Returned(Tuple(<<IntStr(0), IntStr(0)>>))
    ELSE Returned(Tuple(<<IntStr(0), IntStr(1)>>))

\* termination_reducer: 'return 0, 0' when a distance has changed,
\* 'return 1, 1' when none has, and on a ValueError
termination_reducer(k, changed, ok) ==
    IF AnyInt(changed, ok) = "true"
    THEN Returned(Tuple(<<IntStr(0), IntStr(0)>>))
    ELSE Returned(Tuple(<<IntStr(1), IntStr(1)>>))

(***************************************************************************)
(* Floating-point numbers.  A number is held as its sign, the decimal      *)
(* digits of its magnitude from the lowest one up (none for zero) and the  *)
(* number of digits after the point; sums, differences and products are    *)
(* exact.  What str() does to a number is kept: Python 2 formats a float   *)
(* with '%.12g', twelve significant digits.                                *)
(***************************************************************************)
SigDigits == 12

LowDigit(a) == IF a = <<>> THEN 0 ELSE a[1]
Higher(a)   == IF a = <<>> THEN <<>> ELSE Tail(a)

\* a without its high zeros
RECURSIVE Norm(_)
Norm(a) == IF a # <<>> /\ a[Len(a)] = 0 THEN Norm(SubSeq(a, 1, Len(a) - 1)) ELSE a

RECURSIVE AddMag(_, _, _)
AddMag(a, b, carry) ==
    IF a = <<>> /\ b = <<>> THEN (IF carry = 0 THEN <<>> ELSE <<carry>>)
    ELSE <<(LowDigit(a) + LowDigit(b) + carry) % 10>>
         \o AddMag(Higher(a), Higher(b), (LowDigit(a) + LowDigit(b) + carry) \div 10)

\* a - b for a >= b
RECURSIVE SubDigits(_, _, _)
SubDigits(a, b, borrow) ==
    IF a = <<>> THEN <<>>
    ELSE <<(LowDigit(a) - LowDigit(b) - borrow + 10) % 10>>
         \o SubDigits(Higher(a), Higher(b),
                      IF LowDigit(a) - LowDigit(b) - borrow < 0 THEN 1 ELSE 0)

SubMag(a, b) == Norm(SubDigits(a, b, 0))

LessMag(a, b) ==
    \/ Len(a) < Len(b)
    \/ /\ Len(a) = Len(b)
       /\ \E i \in 1..Len(a) : a[i] < b[i] /\ \A j \in (i + 1)..Len(a) : a[j] = b[j]

RECURSIVE MulDigit(_, _, _)
MulDigit(a, d, carry) ==
    IF a = <<>> THEN (IF carry = 0 THEN <<>> ELSE <<carry>>)
    ELSE <<(a[1] * d + carry) % 10>> \o MulDigit(Tail(a), d, (a[1] * d + carry) \div 10)

\* a * 10^k
Shift(a, k) == IF a = <<>> THEN <<>> ELSE [i \in 1..k |-> 0] \o a

RECURSIVE MulMag(_, _)
MulMag(a, b) ==
    IF b = <<>> THEN <<>>
    ELSE AddMag(Norm(MulDigit(a, b[1], 0)), Shift(MulMag(a, Tail(b)), 1), 0)

Float(neg, mag, scale) == [neg |-> neg /\ mag # <<>>, mag |-> mag, scale |-> scale]

Larger(m, n) == IF m < n THEN n ELSE m

\* the magnitude of x in units of 10^-scale
Scaled(x, scale) == Shift(x.mag, scale - x.scale)

SignedAdd(neg1, mag1, neg2, mag2, scale) ==
    IF neg1 = neg2 THEN Float(neg1, AddMag(mag1, mag2, 0), scale)
    ELSE IF LessMag(mag1, mag2) THEN Float(neg2, SubMag(mag2, mag1), scale)
    ELSE Float(neg1, SubMag(mag1, mag2), scale)

FloatAdd(x, y) ==
    SignedAdd(x.neg, Scaled(x, Larger(x.scale, y.scale)),
              y.neg, Scaled(y, Larger(x.scale, y.scale)), Larger(x.scale, y.scale))

FloatSub(x, y) ==
    SignedAdd(x.neg, Scaled(x, Larger(x.scale, y.scale)),
              ~y.neg, Scaled(y, Larger(x.scale, y.scale)), Larger(x.scale, y.scale))

FloatMul(x, y) == Float(x.neg # y.neg, MulMag(x.mag, y.mag), x.scale + y.scale)

\* x > y
FloatGreater(x, y) == FloatSub(x, y).mag # <<>> /\ ~FloatSub(x, y).neg

Unsigned(s) == IF s # <<>> /\ s[1] = "-" THEN Tail(s) ELSE s

\* float(s) does not raise ValueError: digits with at most one point
IsFloat(s) ==
    /\ \A i \in 1..Len(split1(Unsigned(s), ".")) :
           \A j \in 1..Len(split1(Unsigned(s), ".")[i]) :
               split1(Unsigned(s), ".")[i][j] \in DigitChars
    /\ \E i \in 1..Len(split1(Unsigned(s), ".")) : split1(Unsigned(s), ".")[i] # <<>>

\* x without the zeros at the end of its digits after the point, down to
\* least such digits
RECURSIVE Trim(_, _)
Trim(x, least) ==
    IF x.scale > least /\ LowDigit(x.mag) = 0
    THEN Trim(Float(x.neg, Higher(x.mag), x.scale - 1), least)
    ELSE x

FloatOfParts(neg, whole, fraction) ==
    Trim(Float(neg,
               Norm([i \in 1..(Len(whole) + Len(fraction)) |->
                         DigitVal((whole \o fraction)[Len(whole) + Len(fraction) + 1 - i])]),
               Len(fraction)), 0)

\* float(s) where it does not raise
float(s) ==
    FloatOfParts(s[1] = "-", split1(Unsigned(s), ".")[1],
                 IF Len(split1(Unsigned(s), ".")) = 2 THEN split1(Unsigned(s), ".")[2]
                 ELSE <<>>)

\* '%.nf' % x for a number of at most n digits after the point
FixedText(neg, digits, n) ==
    (IF neg THEN <<"-">> ELSE <<>>)
    \o [i \in 1..(Len(digits) - n) |-> Digit(digits[Len(digits) + 1 - i])]
    \o <<".">>
    \o [i \in 1..n |-> Digit(digits[n + 1 - i])]

Fixed(x, n) ==
    FixedText(x.neg,
              Scaled(x, n) \o [i \in 1..(n + 1 - Len(Scaled(x, n))) |-> 0],
              n)

\* the magnitude rounded to SigDigits significant digits, to even on a tie
RoundUp(low, half, kept) == LessMag(half, low) \/ (low = half /\ kept[1] % 2 = 1)

RoundMag(a) ==
    IF Len(a) <= SigDigits THEN a
    ELSE Shift(IF RoundUp(Norm(SubSeq(a, 1, Len(a) - SigDigits)),
                          Shift(<<5>>, Len(a) - SigDigits - 1),
                          SubSeq(a, Len(a) - SigDigits + 1, Len(a)))
               THEN AddMag(SubSeq(a, Len(a) - SigDigits + 1, Len(a)), <<1>>, 0)
               ELSE SubSeq(a, Len(a) - SigDigits + 1, Len(a)),
               Len(a) - SigDigits)

\* str(x) of a float: the number it reads as is x rounded to twelve
\* significant digits (written here without an exponent)
FloatStr(x) ==
    Fixed(Trim(Float(x.neg, RoundMag(x.mag), x.scale), 1),
          Larger(1, Trim(Float(x.neg, RoundMag(x.mag), x.scale), 1).scale))

(***************************************************************************)
(* examples/pagerank/pagerank.py, the termination Job.                     *)
(***************************************************************************)
\* make_value: '%.40f %.40f %s'
make_value(pr_previous, pr_current, nodes) ==
    Fixed(pr_previous, 40) \o <<SP>> \o Fixed(pr_current, 40) \o <<SP>> \o JoinInts(nodes)

\* node_info: "ok" with the previous and the current value, "none" on a
\* ValueError, "raised" when the value has fewer than three words (the
\* IndexError is not caught)
pr_node_info(value) ==
    LET w == split(value)
    IN  IF w = <<>> THEN [kind |-> "raised"]
        ELSE IF ~IsInt(w[1]) THEN [kind |-> "none"]
        ELSE IF Len(w) < 2 THEN [kind |-> "raised"]
        ELSE IF ~IsFloat(w[2]) THEN [kind |-> "none"]
        ELSE IF Len(w) < 3 THEN [kind |-> "raised"]
        ELSE IF ~IsFloat(w[3]) THEN [kind |-> "none"]
        ELSE IF \E i \in 4..Len(w) : ~IsInt(w[i]) THEN [kind |-> "none"]
        ELSE [kind |-> "ok", node |-> int(w[1]),
              pr_previous |-> float(w[2]), pr_current |-> float(w[3])]

\* term_mapper as it would be with the change written in full, '%.40f', as
\* make_value writes the values: the reference C18 is compared with
TermMapperExact(k, value) ==
    LET ni == pr_node_info(value)
    IN  IF ni.kind = "raised" THEN Raised(<<>>)
        ELSE IF ni.kind = "none" THEN Returned(Gen(<<>>))
        ELSE Returned(Gen(<< <<IntStr(0),
                               Fixed(FloatSub(ni.pr_previous, ni.pr_current), 40)>> >>))

\* term_mapper: 'yield 0, (pr_previous - pr_current)', the difference held
\* as the string that the wrapper's str() makes of it
term_mapper(k, value) ==
    LET ni == pr_node_info(value)
    IN  IF ni.kind = "raised" THEN Raised(<<>>)
        ELSE IF ni.kind = "none" THEN Returned(Gen(<<>>))
        ELSE Returned(Gen(<< <<IntStr(0),
                               FloatStr(FloatSub(ni.pr_previous, ni.pr_current))>> >>))

\* sum([float(p) ** 2 for p in pagerank_changes])
RECURSIVE SumSquares(_)
SumSquares(strings) ==
    IF strings = <<>> THEN Float(FALSE, <<>>, 0)
    ELSE FloatAdd(FloatMul(float(Head(strings)), float(Head(strings))),
                  SumSquares(Tail(strings)))

\* term_reducer: 'return 0, 0' when the sum of the squared changes is above
\* precision ** 2, 'return 1, 1' otherwise and on a ValueError; float(None)
\* for a precision that was not passed is a TypeError
term_reducer(k, pagerank_changes, ok, options) ==
    LET precision == Lookup(options, <<"precision">>)
    IN  IF precision = None THEN Raised(<<>>)
        ELSE IF ~IsFloat(precision) THEN Returned(Tuple(<<IntStr(1), IntStr(1)>>))
        ELSE IF ~(ok /\ \A i \in 1..Len(pagerank_changes) : IsFloat(pagerank_changes[i]))
        THEN Returned(Tuple(<<IntStr(1), IntStr(1)>>))
        ELSE IF FloatGreater(SumSquares(pagerank_changes),
                             FloatMul(float(precision), float(precision)))
        THEN Returned(Tuple(<<IntStr(0), IntStr(0)>>))
        ELSE Returned(Tuple(<<IntStr(1), IntStr(1)>>))

(***************************************************************************)
(* examples/mergesort/mergesort.py                                         *)
(***************************************************************************)
\* the loop of merge_lists over the two lists with sys.maxint appended, n
\* rounds from the two indexes on, after list_sorted: the list, or "raised"
\* for the IndexError of an index past the end of its list
RECURSIVE MergeLoop(_, _, _, _, _, _)
MergeLoop(list1, list2, index1, index2, n, list_sorted) ==
    IF n = 0 THEN [list |-> list_sorted, raised |-> FALSE]
    ELSE IF index1 > Len(list1) \/ index2 > Len(list2)
    THEN [list |-> list_sorted, raised |-> TRUE]
    ELSE IF list1[index1] < list2[index2]
    THEN MergeLoop(list1, list2, index1 + 1, index2, n - 1,
                   Append(list_sorted, list1[index1]))
    ELSE MergeLoop(list1, list2, index1, index2 + 1, n - 1,
                   Append(list_sorted, list2[index2]))

\* merge_lists
merge_lists(list1, list2) ==
    MergeLoop(Append(list1, maxint), Append(list2, maxint), 1, 1,
              Len(list1) + Len(list2), <<>>)

\* merge_reducer on two buckets
MergedPair(k, merged) ==
    IF merged.raised THEN Raised(<<>>)
    ELSE Returned(Gen(<< <<k, JoinInts(merged.list)>> >>))

\* init_mapper with every word of the line under the key int(key) + 1
InitMapperSameKey(k, value) ==
    LET items == split(value)
    IN  Returned(Gen([i \in 1..Len(items) |-> <<IntStr(int(k) + 1), items[i]>>]))

\* init_mapper: the words of the line, each under its own key from int(key) + 1
init_mapper(k, value) ==
    LET items == split(value)
    IN  Returned(Gen([i \in 1..Len(items) |-> <<IntStr(int(k) + 1 + (i - 1)), items[i]>>]))

\* init_reducer: the bucket's values sorted (the unpacking error of valuesof
\* is not caught)
init_reducer(k, values, ok) ==
    IF ~ok THEN Raised(<<>>)
    ELSE Returned(Gen(<< <<k, JoinInts(sorted(str_to_int(values)))>> >>))

\* Python 2's a / 2 for integers
FloorHalf(a) == IF a >= 0 THEN a \div 2 ELSE 0 - ((1 - a) \div 2)

\* merge_mapper: the bucket under the id (id + 1) / 2; a line without numbers
\* after the id, or an id that is no integer, raises ValueError
merge_mapper(k, value) ==
    LET w == split_none_1(value)
    IN  IF Len(w) # 2 \/ ~IsInt(w[1]) THEN Raised(<<>>)
        ELSE Returned(Gen(<< <<IntStr(FloorHalf(int(w[1]) + 1)), w[2]>> >>))

MergeReducerAnyBucket(k, values, ok) ==
    IF ~ok \/ ~IsInt(k) THEN Raised(<<>>)
    ELSE IF int(k) <= 0 THEN Returned(Gen(<<>>))
    ELSE IF Len(values) = 2
    THEN MergedPair(k, merge_lists(str_to_int(split(values[1])),
                                   str_to_int(split(values[2]))))
    ELSE Returned(Gen(<< <<k, values[1]>>, <<IntStr(0), IntStr(1)>> >>))

\* merge_reducer: two buckets merged; one bucket as it is, followed for the
\* id 1 by the pair (0, 1)
merge_reducer(k, values, ok) ==
    IF ~ok \/ ~IsInt(k) THEN Raised(<<>>)
    ELSE IF int(k) <= 0 THEN Returned(Gen(<<>>))
    ELSE IF Len(values) = 2
    THEN MergedPair(k, merge_lists(str_to_int(split(values[1])),
                                   str_to_int(split(values[2]))))
    ELSE IF int(k) = 1
    THEN Returned(Gen(<< <<k, values[1]>>, <<IntStr(0), IntStr(1)>> >>))
    ELSE Returned(Gen(<< <<k, values[1]>> >>))

\* split_mapper: the buckets with an id above 0
split_mapper(k, value) ==
    LET w == split_none_1(value)
    IN  IF Len(w) # 2 \/ ~IsInt(w[1]) THEN Raised(<<>>)
        ELSE IF int(w[1]) > 0 THEN Returned(Gen(<< <<w[1], w[2]>> >>))
        ELSE Returned(Gen(<<>>))

\* split_reducer: the numbers of the first bucket, one per pair, from 1
split_reducer(k, values, ok) ==
    IF ~ok THEN Raised(<<>>)
    ELSE LET numbers == str_to_int(split(values[1]))
         IN  Returned(Gen([i \in 1..Len(numbers) |-> <<IntStr(i), IntStr(numbers[i])>>]))

(***************************************************************************)
(* A Job of an example program: its map tasks (mapper_wrapper over the     *)
(* lines of an input file), the shuffle, and its reduce task               *)
(* (reducer_wrapper), with the user functions called by name as            *)
(* find_method finds them.  "options" is what get_parameters sees in the   *)
(* worker, "adjacency" the graph read from the file shipped with the Job.  *)
(***************************************************************************)
CallMapper(name, k, value, env) ==
    CASE name = "wc_mapper"          -> wc_mapper(k, value)
      [] name = "frontier_mapper"    -> frontier_mapper(k, value, env.options, env.adjacency)
      [] name = "filter_mapper"      -> filter_mapper(k, value)
      [] name = "termination_mapper" -> termination_mapper(k, value)
      [] name = "term_mapper"        -> term_mapper(k, value)
      [] name = "init_mapper"        -> init_mapper(k, value)
      [] name = "merge_mapper"       -> merge_mapper(k, value)
      [] name = "split_mapper"       -> split_mapper(k, value)

CallReducer(name, k, values, ok, env) ==
    CASE name = "wc_reducer"          -> wc_reducer(k, values, ok)
      [] name = "frontier_reducer"    -> frontier_reducer(k, values, ok)
      [] name = "filter_reducer"      -> filter_reducer(k, values, ok)
      [] name = "termination_reducer" -> termination_reducer(k, values, ok)
      [] name = "term_reducer"        -> term_reducer(k, values, ok, env.options)
      [] name = "init_reducer"        -> init_reducer(k, values, ok)
      [] name = "merge_reducer"       -> merge_reducer(k, values, ok)
      [] name = "split_reducer"       -> split_reducer(k, values, ok)

\* mapper_wrapper from line i on with the running key k, after the lines
\* acc already printed: the lines printed, and whether an exception ended
\* the task
RECURSIVE MapLoop(_, _, _, _, _, _)
MapEmit(name, lines, i, k, env, acc, raised, pairs) ==
    IF raised
    THEN [out |-> acc \o MapperPrint(pairs, k), failed |-> TRUE]
    ELSE MapLoop(name, lines, i + 1, NextKey(k, Len(pairs)), env,
                 acc \o MapperPrint(pairs, k))

MapCall(name, lines, i, k, env, acc, r) ==
    MapEmit(name, lines, i, k, env, acc, r.raised, PairsOf(r.ret))

MapLoop(name, lines, i, k, env, acc) ==
    IF i > Len(lines) THEN [out |-> acc, failed |-> FALSE]
    ELSE MapCall(name, lines, i, k, env, acc,
                 CallMapper(name, DecStr(k), rstrip(lines[i]), env))

MapTask(name, lines, env) == MapLoop(name, lines, 1, 0, env, <<>>)

\* reducer_wrapper from the group after line done on, after the lines acc
\* already printed
RECURSIVE ReduceLoop(_, _, _, _, _)
ReduceEmit(name, lines, last, env, acc, r) ==
    IF r.raised
    THEN [out |-> acc \o ReducerPrint(PairsOf(r.ret)), failed |-> TRUE]
    ELSE ReduceLoop(name, lines, last, env, acc \o ReducerPrint(PairsOf(r.ret)))

ReduceGroup(name, lines, first, last, env, acc) ==
    ReduceEmit(name, lines, last, env, acc,
               CallReducer(name, ParseLine(lines[first])[1],
                           ValuesOf(lines, first, last),
                           Unpackable(lines, first, last), env))

ReduceLoop(name, lines, done, env, acc) ==
    IF done >= Len(lines) THEN [out |-> acc, failed |-> FALSE]
    ELSE ReduceGroup(name, lines, done + 1, GroupEnd(lines, done + 1), env, acc)

ReduceTask(name, lines, env) == ReduceLoop(name, lines, 0, env, <<>>)

\* the lines of a file as a task reads them
WithNewlines(lines) == [i \in 1..Len(lines) |-> lines[i] \o <<NL>>]

\* the map tasks of a Job, one per input file, in the order of the inputs,
\* after the tasks whose results are in acc
RECURSIVE MapStage(_, _, _, _)
MapJoin(name, inputs, env, acc, m) ==
    MapStage(name, Tail(inputs), env,
             [out |-> acc.out \o m.out, failed |-> acc.failed \/ m.failed])

MapStage(name, inputs, env, acc) ==
    IF inputs = <<>> THEN acc
    ELSE MapJoin(name, inputs, env, acc, MapTask(name, WithNewlines(Head(inputs)), env))

\* a Job on the contents of its input files: the lines of its output, or
\* "failed" when a task of it has failed
JobOutput(r) ==
    IF r.failed THEN [out |-> <<>>, failed |-> TRUE] ELSE [out |-> r.out, failed |-> FALSE]

JobReduce(redname, env, m) ==
    IF m.failed THEN [out |-> <<>>, failed |-> TRUE]
    ELSE JobOutput(ReduceTask(redname, ShuffleSort(m.out), env))

JobResult(mapname, redname, inputs, env) ==
    JobReduce(redname, env, MapStage(mapname, inputs, env, [out |-> <<>>, failed |-> FALSE]))

(***************************************************************************)
(* Runs of the example programs on their data: the '__main__' sections of  *)
(* wordcount.py, dijkstra.py, pagerank.py and mergesort.py with the Jobs   *)
(* they submit computed from the files on the DFS.  A Job whose input is   *)
(* missing, or one of whose tasks ends with an exception, fails and leaves *)
(* no output; run() returns all the same, and the programs do not look at  *)
(* what it returns.                                                        *)
(***************************************************************************)
\* a line without its newline
Chomp(line) ==
    IF line # <<>> /\ line[Len(line)] = NL THEN SubSeq(line, 1, Len(line) - 1) ELSE line

\* the lines of the file that dfs_write makes of one pair
SeedFile(k, v) ==
    LET lines == FileLines(dfs_write([list |-> FALSE, pairs |-> << <<k, v>> >>]))
    IN  [i \in 1..Len(lines) |-> Chomp(lines[i])]

\* dfs_read(name + '/part*'): the lines of the file, none when it is missing
DfsRead(name) == IF name \in DOMAIN files THEN files[name] ELSE <<>>

\* the text of lines
RECURSIVE Cat(_)
Cat(lines) == IF lines = <<>> THEN <<>> ELSE Head(lines) \o <<NL>> \o Cat(Tail(lines))

\* dfs_read(name + '/part*', last=1)
LastLine(lines) == IF lines = <<>> THEN <<>> ELSE lines[Len(lines)]

Env == [options |-> job_options, adjacency |-> graph]

\* the Job of the given functions on the named files
JobOn(mapname, redname, names) ==
    IF \E i \in 1..Len(names) : names[i] \notin DOMAIN files
    THEN [out |-> <<>>, failed |-> TRUE]
    ELSE JobResult(mapname, redname, [i \in 1..Len(names) |-> files[names[i]]], Env)

\* the DFS after a Job with result r and the given output
FilesAfter(r, output) == IF r.failed THEN files ELSE (output :> r.out) @@ files

\* the Job as the log keeps it
RunRecord(mapname, names, output, r) ==
    [mapper |-> mapname, inputs |-> names, output |-> output, iteration |-> iteration,
     failed |-> r.failed, read |-> [i \in 1..Len(names) |-> DfsRead(names[i])],
     out |-> r.out]

\* run(job): the DFS and the log after the Job with result r
Ran(mapname, names, output, r) ==
    /\ files' = FilesAfter(r, output)
    /\ jobs' = Append(jobs, RunRecord(mapname, names, output, r))

RunJob(mapname, redname, names, output) ==
    Ran(mapname, names, output, JobOn(mapname, redname, names))

\* 'int(value.split()[1])' of what dfs_read returns: "raised" for the
\* IndexError of a text with fewer than two words and the ValueError of a
\* word that is no integer
FlagOf(lines) ==
    LET w == split(Cat(lines))
    IN  IF Len(w) < 2 \/ ~IsInt(w[2]) THEN [raised |-> TRUE]
        ELSE [raised |-> FALSE, value |-> int(w[2])]

\* 'int(state.split()[0])' of the last line
StateOf(lines) ==
    LET w == split(LastLine(lines))
    IN  IF w = <<>> \/ ~IsInt(w[1]) THEN [raised |-> TRUE]
        ELSE [raised |-> FALSE, value |-> int(w[1])]

\* ReadFlag with a controller that takes every flag for 'continue'
ReadFlagContinues(flag) ==
    IF flag.raised
    THEN /\ cpc' = "crashed"
         /\ UNCHANGED <<stop, iteration, flags>>
    ELSE /\ stop' = 0
         /\ flags' = Append(flags, flag.value)
         /\ iteration' = iteration + 1
         /\ cpc' = "loop"

\* 'stop = int(termination_value.split()[1])' and 'iteration += 1'; the
\* exception of the conversion ends the program
ReadFlag(flag) ==
    IF flag.raised
    THEN /\ cpc' = "crashed"
         /\ UNCHANGED <<stop, iteration, flags>>
    ELSE /\ stop' = flag.value
         /\ flags' = Append(flags, flag.value)
         /\ iteration' = iteration + 1
         /\ cpc' = "loop"

\* 'if int(state.split()[0]) == 0: stop = True' and 'iteration += 1'
ReadState(state) ==
    IF state.raised
    THEN /\ cpc' = "crashed"
         /\ UNCHANGED <<stop, iteration, flags>>
    ELSE /\ stop' = (IF state.value = 0 THEN 1 ELSE stop)
         /\ flags' = Append(flags, state.value)
         /\ iteration' = iteration + 1
         /\ cpc' = cpc

\* wordcount.py: one Job from input to output
WordcountRun ==
    /\ prog = "wordcount" /\ cpc = "start"
    /\ nargs = 3
    /\ RunJob("wc_mapper", "wc_reducer", << <<"input">> >>, <<"output">>)
    /\ cpc' = "exit"
    /\ UNCHANGED <<prog, nargs, arg_max, arg_start, iteration_max, iteration, stop,
                   current, previous, written>>
    /\ UNCHANGED <<graph, source, job_options, jobfns, flags>>
    /\ UNCHANGED notRun

\* dijkstra.py up to the loop: the two seed files hold (source_node, 0)
DijkstraRunStart ==
    /\ prog = "dijkstra" /\ cpc = "start"
    /\ nargs = 3
    /\ LET istart == IF nargs = 5 THEN arg_start ELSE 1
           f0     == FileName("frontier", istart - 1)
           fl0    == FileName("filter", istart - 1)
       IN  /\ iteration_max' = IF nargs = 4 THEN arg_max ELSE maxint
           /\ iteration' = istart
           /\ current' = [frontier |-> f0, filter |-> fl0, termination |-> None]
           /\ files' = (f0 :> SeedFile(source, IntStr(0)))
                       @@ (fl0 :> SeedFile(source, IntStr(0))) @@ files
    /\ previous' = [frontier |-> None, filter |-> None, termination |-> None]
    /\ stop' = 0
    /\ cpc' = "loop"
    /\ UNCHANGED <<prog, nargs, arg_max, arg_start, written, jobs>>
    /\ UNCHANGED <<graph, source, job_options, jobfns, flags>>
    /\ UNCHANGED notRun

\* a round starts: the file names, then the frontier Job on the previous
\* filter
DijkstraRunFrontier ==
    /\ prog = "dijkstra" /\ cpc = "loop"
    /\ stop = 0 /\ iteration < iteration_max
    /\ iteration <= MaxRounds
    /\ previous' = [frontier |-> current.frontier, filter |-> current.filter,
                    termination |-> None]
    /\ current' = [frontier |-> FileName("frontier", iteration),
                   filter |-> FileName("filter", iteration),
                   termination |-> FileName("termination", iteration)]
    /\ RunJob("frontier_mapper", "frontier_reducer", <<current.filter>>,
           FileName("frontier", iteration))
    /\ cpc' = "filter"
    /\ UNCHANGED <<prog, nargs, arg_max, arg_start, iteration_max, iteration, stop, written>>
    /\ UNCHANGED <<graph, source, job_options, jobfns, flags>>
    /\ UNCHANGED notRun

\* the filter Job on the previous and the current frontier
DijkstraRunFilter ==
    /\ prog = "dijkstra" /\ cpc = "filter"
    /\ RunJob("filter_mapper", "filter_reducer", <<previous.frontier, current.frontier>>,
           current.filter)
    /\ cpc' = "termination"
    /\ UNCHANGED <<prog, nargs, arg_max, arg_start, iteration_max, iteration, stop,
                   current, previous, written>>
    /\ UNCHANGED <<graph, source, job_options, jobfns, flags>>
    /\ UNCHANGED notRun

\* the termination Job on the current filter, then
\* 'stop = int(termination_value.split()[1])' and 'iteration += 1'
DijkstraRunTermination ==
    /\ prog = "dijkstra" /\ cpc = "termination"
    /\ RunJob("termination_mapper", "termination_reducer", <<current.filter>>,
           current.termination)
    /\ ReadFlag(FlagOf(IF current.termination \in DOMAIN files'
                       THEN files'[current.termination] ELSE <<>>))
    /\ UNCHANGED <<prog, nargs, arg_max, arg_start, iteration_max, current, previous, written>>
    /\ UNCHANGED <<graph, source, job_options, jobfns>>
    /\ UNCHANGED notRun

\* what the PageRank Job of a round may leave: the arithmetic on the values
\* is not modelled, the file holds one of a few previous and current values
\* per node. Risen and Fallen are the values of round 2 for the graph
\* '0 0 1', '1 0' with the damping 0.4000000000004: 0.5 + d / 4, 0.5 - d / 4
Half    == Float(FALSE, <<5>>, 1)
Quarter == Float(FALSE, <<5, 2>>, 2)
Risen   == Float(FALSE, <<1, 0, 0, 0, 0, 0, 0, 0, 0, 0, 0, 0, 6>>, 13)
Fallen  == Float(FALSE, <<9, 9, 9, 9, 9, 9, 9, 9, 9, 9, 9, 9, 3>>, 13)

PagerankValues ==
    { <<Half, Half>>, <<Half, Quarter>>, <<Half, Risen>>, <<Half, Fallen>> }

PagerankLine(node, adjacent, pr) ==
    IntStr(node) \o <<TAB>> \o make_value(pr[1], pr[2], <<adjacent>>)

PagerankOutputs ==
    { <<PagerankLine(0, 1, p), PagerankLine(1, 0, q)>> : p, q \in PagerankValues }

\* pagerank.py up to the loop: the initial values, previous and current alike
PagerankRunStart ==
    /\ prog = "pagerank" /\ cpc = "start"
    /\ nargs >= 5
    /\ LET istart == IF nargs >= 7 THEN arg_start ELSE 1
           p0     == FileName("output_pagerank", istart)
       IN  /\ iteration_max' = IF nargs >= 6 THEN arg_max ELSE maxint
           /\ current' = [pagerank |-> p0, term |-> None]
           /\ files' = IF istart = 1
                       THEN (p0 :> <<PagerankLine(0, 1, <<Half, Half>>),
                                     PagerankLine(1, 0, <<Half, Half>>)>>) @@ files
                       ELSE files
           /\ iteration' = IF istart = 1 THEN istart + 1 ELSE istart
    /\ previous' = [pagerank |-> None, term |-> None]
    /\ stop' = 0
    /\ cpc' = "loop"
    /\ UNCHANGED <<prog, nargs, arg_max, arg_start, written, jobs>>
    /\ UNCHANGED <<graph, source, job_options, jobfns, flags>>
    /\ UNCHANGED notRun

\* a round starts: the file names, then the PageRank Job, which leaves out or
\* fails
PagerankRunJob(out, fails) ==
    /\ prog = "pagerank" /\ cpc = "loop"
    /\ stop = 0 /\ iteration < iteration_max
    /\ iteration <= MaxRounds
    /\ previous' = [pagerank |-> current.pagerank, term |-> None]
    /\ current' = [pagerank |-> FileName("output_pagerank", iteration),
                   term |-> FileName("output_term", iteration)]
    /\ Ran("pagerank_mapper", <<current.pagerank>>, FileName("output_pagerank", iteration),
           IF fails \/ current.pagerank \notin DOMAIN files
           THEN [out |-> <<>>, failed |-> TRUE]
           ELSE [out |-> out, failed |-> FALSE])
    /\ cpc' = "term"
    /\ UNCHANGED <<prog, nargs, arg_max, arg_start, iteration_max, iteration, stop, written>>
    /\ UNCHANGED <<graph, source, job_options, jobfns, flags>>
    /\ UNCHANGED notRun

\* the termination Job on the current values, then
\* 'stop = int(term_value.split()[1])' and 'iteration += 1'
PagerankRunTerm ==
    /\ prog = "pagerank" /\ cpc = "term"
    /\ RunJob("term_mapper", "term_reducer", <<current.pagerank>>, current.term)
    /\ ReadFlag(FlagOf(IF current.term \in DOMAIN files' THEN files'[current.term]
                       ELSE <<>>))
    /\ UNCHANGED <<prog, nargs, arg_max, arg_start, iteration_max, current, previous, written>>
    /\ UNCHANGED <<graph, source, job_options, jobfns>>
    /\ UNCHANGED notRun

\* 'while not stop and iteration < iteration_max' ends
RunLoopExit ==
    /\ prog \in {"dijkstra", "pagerank"} /\ cpc = "loop"
    /\ stop # 0 \/ iteration >= iteration_max
    /\ cpc' = "exit"
    /\ UNCHANGED <<prog, nargs, arg_max, arg_start, iteration_max, iteration, stop,
                   current, previous, written, jobs>>
    /\ UNCHANGED evars
    /\ UNCHANGED notRun

\* mergesort.py up to the loop: the Job that makes the initial buckets
MergesortRunStart ==
    /\ prog = "mergesort" /\ cpc = "start"
    /\ nargs = 3
    /\ RunJob("init_mapper", "init_reducer", << <<"input">> >>, FileName("output", 0))
    /\ stop' = 0
    /\ iteration' = 1
    /\ current' = None
    /\ previous' = None
    /\ cpc' = "loop"
    /\ UNCHANGED <<prog, nargs, arg_max, arg_start, iteration_max, written>>
    /\ UNCHANGED <<graph, source, job_options, jobfns, flags>>
    /\ UNCHANGED notRun

\* a merge round, then the state read from the last line of its output:
\* stop when it is the id 0
MergesortRunMerge ==
    /\ prog = "mergesort" /\ cpc = "loop"
    /\ stop = 0
    /\ iteration <= MaxRounds
    /\ previous' = FileName("output", iteration - 1)
    /\ current' = FileName("output", iteration)
    /\ RunJob("merge_mapper", "merge_reducer", <<FileName("output", iteration - 1)>>,
           FileName("output", iteration))
    /\ ReadState(StateOf(IF FileName("output", iteration) \in DOMAIN files'
                         THEN files'[FileName("output", iteration)] ELSE <<>>))
    /\ UNCHANGED <<prog, nargs, arg_max, arg_start, iteration_max, written>>
    /\ UNCHANGED <<graph, source, job_options, jobfns>>
    /\ UNCHANGED notRun

\* after the loop: one number per record
MergesortRunSplit ==
    /\ prog = "mergesort" /\ cpc = "loop"
    /\ stop # 0
    /\ RunJob("split_mapper", "split_reducer", <<current>>, <<"output_sorted">>)
    /\ cpc' = "exit"
    /\ UNCHANGED <<prog, nargs, arg_max, arg_start, iteration_max, iteration, stop,
                   current, previous, written>>
    /\ UNCHANGED <<graph, source, job_options, jobfns, flags>>
    /\ UNCHANGED notRun

(***************************************************************************)
(* The inputs of the runs.                                                 *)
(***************************************************************************)
\* graphs on the nodes 0, 1, 2: the path 0 -> 1 -> 2, a cycle, a star, and a
\* graph with a node out of reach
PathGraph == [n \in 0..2 |-> IF n < 2 THEN <<n + 1>> ELSE <<>>]
Graphs ==
    { PathGraph,
      [n \in 0..2 |-> <<(n + 1) % 3>>],
      [n \in 0..2 |-> IF n = 0 THEN <<1, 2>> ELSE <<>>],
      [n \in 0..2 |-> IF n = 0 THEN <<1>> ELSE IF n = 1 THEN <<0>> ELSE <<>>] }

Sources == { <<"0">>, <<"1">>, <<"2">>, <<"a">> }

\* precision arguments of pagerank.py
Precisions ==
    { <<"0", ".", "2", "5">>,
      <<"0", ".", "1", "4", "1", "4", "2", "1", "3", "5", "6", "2", "3", "7", "4">> }

\* lines of numbers for mergesort.py, lines of words for wordcount.py
NumberLines == { <<"3", SP, "1">>, <<"2">>, <<"1", SP, "2", SP, "2">>,
                 <<"-", "1", SP, "1", "0">>, JoinInts(<<maxint, maxint, maxint>>) }
WordLines   == { <<"a", SP, "b", SP, "a">>, <<"b", SP, "c">>, <<SP, "c", TAB, "c", SP>>, <<>> }
MaxInput    == 2     \* lines of an input file

RunInit ==
    /\ prog \in {"wordcount", "dijkstra", "pagerank", "mergesort"}
    /\ \/ /\ prog = "wordcount"
          /\ files \in {(<<"input">> :> ls) : ls \in SeqsUpTo(WordLines, MaxInput)}
          /\ graph = <<>> /\ source = <<>> /\ job_options = EmptyDict
          /\ nargs = 3 /\ arg_max = 0
       \/ /\ prog = "dijkstra"
          /\ files = EmptyDict
          /\ graph \in Graphs /\ source \in Sources
          /\ job_options = (<<"graph">> :> <<"g">>) @@ (<<"source">> :> source)
          /\ nargs = 3 /\ arg_max = 0
       \/ /\ prog = "pagerank"
          /\ files = EmptyDict
          /\ graph = <<>> /\ source = <<>>
          /\ job_options \in {(<<"precision">> :> p) : p \in Precisions}
          /\ nargs \in {5, 6} /\ arg_max \in ArgMaxes
       \/ /\ prog = "mergesort"
          /\ files \in {(<<"input">> :> ls) : ls \in SeqsUpTo(NumberLines, MaxInput)}
          /\ graph = <<>> /\ source = <<>> /\ job_options = EmptyDict
          /\ nargs = 3 /\ arg_max = 0
    /\ jobfns = <<>>
    /\ flags = <<>>
    /\ arg_start = 1
    /\ iteration_max = 0
    /\ iteration = 0
    /\ stop = 0
    /\ current = None
    /\ previous = None
    /\ written = {}
    /\ jobs = <<>>
    /\ cpc = "start"
    \* the other parts have not started
    /\ task = ""
    /\ stdin = <<>>
    /\ pos = 0
    /\ key = 0
    /\ calls = <<>>
    /\ stdout = <<>>
    /\ pc = ""
    /\ mapout = <<>>
    /\ parameters = EmptyDict
    /\ passed = EmptyDict
    /\ dtrace = None
    /\ cmd = <<>>
    /\ worker = ""
    /\ argv = <<>>
    /\ params = EmptyDict
    /\ filename_trace = None
    /\ tasktype = None
    /\ taskname = None
    /\ got = <<>>
    /\ ppc = ""
    /\ content = <<>>
    /\ dfsfile = <<>>
    /\ readback = <<>>
    /\ dpc = ""
    /\ procs = <<>>
    /\ preexisting = {}
    /\ puts = <<>>

RunNext ==
    \/ WordcountRun
    \/ DijkstraRunStart
    \/ DijkstraRunFrontier
    \/ DijkstraRunFilter
    \/ DijkstraRunTermination
    \/ PagerankRunStart
    \/ \E out \in PagerankOutputs, fails \in BOOLEAN : PagerankRunJob(out, fails)
    \/ PagerankRunTerm
    \/ RunLoopExit
    \/ MergesortRunStart
    \/ MergesortRunMerge
    \/ MergesortRunSplit

(***************************************************************************)
(* One Job of an example program on a file of the kind the program's       *)
(* earlier Jobs leave as its input: the termination Job and the frontier   *)
(* Job of dijkstra.py on the output of a filter Job, the termination Job   *)
(* of pagerank.py on PageRank values, a merge Job of mergesort.py on       *)
(* sorted buckets.                                                         *)
(***************************************************************************)
\* a line of the frontier and filter files: node TAB distance
NodeLine(node, distance) == IntStr(node) \o <<TAB>> \o IntStr(distance)

\* the lines of the nodes from n on, each node not in the file or with one of
\* the distances (a negative one for a node that has not changed)
RECURSIVE NodeFiles(_)
NodeFiles(n) ==
    IF n > 2 THEN { <<>> }
    ELSE { pre \o rest : pre \in { <<>> } \cup { <<NodeLine(n, d)>> : d \in {-1, 0, 1} },
                         rest \in NodeFiles(n + 1) }

FilterFiles == NodeFiles(0) \ { <<>> }

\* the buckets 1 .. k with sorted numbers
BucketTexts == { <<"1">>, <<"2">>, <<"1", SP, "3">> }
BucketFiles ==
    UNION { { [i \in 1..k |-> IntStr(i) \o <<TAB>> \o f[i]] : f \in [1..k -> BucketTexts] }
            : k \in 1..3 }

JobDone(mapname) ==
    /\ prog = "job" /\ cpc = "start"
    /\ jobfns[1] = mapname
    /\ RunJob(jobfns[1], jobfns[2], << <<"input">> >>, <<"output">>)
    /\ cpc' = "exit"
    /\ UNCHANGED <<prog, nargs, arg_max, arg_start, iteration_max, iteration, stop,
                   current, previous, written>>
    /\ UNCHANGED <<graph, source, job_options, jobfns, flags>>
    /\ UNCHANGED notRun

FrontierJob    == JobDone("frontier_mapper")
TerminationJob == JobDone("termination_mapper")
TermJob        == JobDone("term_mapper")
MergeJob       == JobDone("merge_mapper")

ExampleJobInit ==
    /\ \/ /\ jobfns = <<"frontier_mapper", "frontier_reducer">>
          /\ files \in {(<<"input">> :> ls) : ls \in FilterFiles}
          /\ graph \in Graphs /\ source = <<"0">>
          /\ job_options = (<<"graph">> :> <<"g">>) @@ (<<"source">> :> source)
       \/ /\ jobfns = <<"termination_mapper", "termination_reducer">>
          /\ files \in {(<<"input">> :> ls) : ls \in FilterFiles}
          /\ graph = PathGraph /\ source = <<"0">>
          /\ job_options = (<<"graph">> :> <<"g">>) @@ (<<"source">> :> source)
       \/ /\ jobfns = <<"term_mapper", "term_reducer">>
          /\ files \in {(<<"input">> :> ls) : ls \in PagerankOutputs}
          /\ graph = <<>> /\ source = <<>>
          /\ job_options \in {(<<"precision">> :> p) : p \in Precisions}
       \/ /\ jobfns = <<"merge_mapper", "merge_reducer">>
          /\ files \in {(<<"input">> :> ls) : ls \in BucketFiles}
          /\ graph = <<>> /\ source = <<>> /\ job_options = EmptyDict
    /\ flags = <<>>
    /\ prog = "job"
    /\ nargs = 0
    /\ arg_max = 0
    /\ arg_start = 0
    /\ iteration_max = 0
    /\ iteration = 0
    /\ stop = 0
    /\ current = None
    /\ previous = None
    /\ written = {}
    /\ jobs = <<>>
    /\ cpc = "start"
    \* the other parts have not started
    /\ task = ""
    /\ stdin = <<>>
    /\ pos = 0
    /\ key = 0
    /\ calls = <<>>
    /\ stdout = <<>>
    /\ pc = ""
    /\ mapout = <<>>
    /\ parameters = EmptyDict
    /\ passed = EmptyDict
    /\ dtrace = None
    /\ cmd = <<>>
    /\ worker = ""
    /\ argv = <<>>
    /\ params = EmptyDict
    /\ filename_trace = None
    /\ tasktype = None
    /\ taskname = None
    /\ got = <<>>
    /\ ppc = ""
    /\ content = <<>>
    /\ dfsfile = <<>>
    /\ readback = <<>>
    /\ dpc = ""
    /\ procs = <<>>
    /\ preexisting = {}
    /\ puts = <<>>

ExampleJobNext ==
    \/ FrontierJob
    \/ TerminationJob
    \/ TermJob
    \/ MergeJob

(***************************************************************************)
(* One task of an example program on the lines of its standard input: a    *)
(* map function under mapper_wrapper, or a reduce function under           *)
(* reducer_wrapper on lines sorted by key, whatever the lines hold.        *)
(***************************************************************************)
MaxTaskLines == 3     \* lines on the standard input of the task

\* lines of numbers for init_mapper, an empty one among them
TokenLines == { <<"3", SP, "1">>, <<"2">>, <<"1", SP, "2", SP, "2">>, <<>> }

\* records under the key 0 with a number, zero or not, or a word that is
\* none, as a termination reducer may be given them
ChangedLines == { <<"0", TAB, "0">>, <<"0", TAB, "1">>, <<"0", TAB, "x">> }
ChangeLines  == { <<"0", TAB, "0", ".", "5">>, <<"0", TAB, "-", "0", ".", "5">>,
                  <<"0", TAB, "x">> }

\* the records of node 1 in the previous and the current frontier
DistanceLines == { NodeLine(1, d) : d \in 0..2 }

\* the map task has read its input
MapTaskRun ==
    /\ task = "pmapper" /\ pc = "run"
    /\ stdout' = MapTask(jobfns[1], WithNewlines(stdin), Env).out
    /\ pc' = IF MapTask(jobfns[1], WithNewlines(stdin), Env).failed THEN "crashed" ELSE "done"
    /\ pos' = Len(stdin)
    /\ UNCHANGED <<task, stdin, key, calls, mapout>>
    /\ UNCHANGED notWorker

\* the reduce task has read its input
ReduceTaskRun ==
    /\ task = "preducer" /\ pc = "run"
    /\ stdout' = ReduceTask(jobfns[1], WithNewlines(stdin), Env).out
    /\ pc' = IF ReduceTask(jobfns[1], WithNewlines(stdin), Env).failed THEN "crashed" ELSE "done"
    /\ pos' = Len(stdin)
    /\ UNCHANGED <<task, stdin, key, calls, mapout>>
    /\ UNCHANGED notWorker

TaskInit ==
    /\ \/ /\ task = "pmapper" /\ jobfns = <<"init_mapper">>
          /\ stdin \in SeqsUpTo(TokenLines, MaxTaskLines)
          /\ job_options = EmptyDict
       \/ /\ task = "preducer" /\ jobfns = <<"termination_reducer">>
          /\ stdin \in SeqsUpTo(ChangedLines, MaxTaskLines)
          /\ job_options = EmptyDict
       \/ /\ task = "preducer" /\ jobfns = <<"term_reducer">>
          /\ stdin \in SeqsUpTo(ChangeLines, MaxTaskLines)
          /\ job_options \in {(<<"precision">> :> p) : p \in Precisions}
       \/ /\ task = "preducer" /\ jobfns = <<"filter_reducer">>
          /\ stdin \in SeqsUpTo(DistanceLines, 2)
          /\ job_options = EmptyDict
    /\ pos = 0
    /\ key = 0
    /\ calls = <<>>
    /\ stdout = <<>>
    /\ pc = "run"
    /\ mapout = <<>>
    \* the other parts have not started
    /\ files = EmptyDict
    /\ graph = <<>>
    /\ source = <<>>
    /\ flags = <<>>
    /\ prog = ""
    /\ nargs = 0
    /\ arg_max = 0
    /\ arg_start = 0
    /\ iteration_max = 0
    /\ iteration = 0
    /\ stop = 0
    /\ current = <<>>
    /\ previous = <<>>
    /\ written = {}
    /\ jobs = <<>>
    /\ cpc = ""
    /\ parameters = EmptyDict
    /\ passed = EmptyDict
    /\ dtrace = None
    /\ cmd = <<>>
    /\ worker = ""
    /\ argv = <<>>
    /\ params = EmptyDict
    /\ filename_trace = None
    /\ tasktype = None
    /\ taskname = None
    /\ got = <<>>
    /\ ppc = ""
    /\ content = <<>>
    /\ dfsfile = <<>>
    /\ readback = <<>>
    /\ dpc = ""
    /\ procs = <<>>
    /\ preexisting = {}
    /\ puts = <<>>

TaskNext ==
    \/ MapTaskRun
    \/ ReduceTaskRun

(***************************************************************************)
(* A process of the calling program started with any argument vector:      *)
(* init() up to the task, then the task found and run, or init() back in   *)
(* the caller's '__main__' section.                                        *)
(***************************************************************************)
MaxArgs == 3     \* the arguments after the program's name

\* the functions of the caller's file, as inspect_methods yields them
Functions == {mapper_name, reducer_name}

ArgTokens == { DASHES \o option_mapper, DASHES \o option_reducer, DASHES \o option_trace,
               mapper_name, <<"x">>, <<"t">> }

\* find_method finds no function of the task's name (or init() has found no
\* task flag at all): init() returns to the statement after it
InitReturns ==
    /\ ppc = "task"
    /\ tasktype = None \/ taskname \notin Functions
    /\ ppc' = "main"
    /\ UNCHANGED <<parameters, passed, dtrace, cmd, worker, argv, params, filename_trace,
                   tasktype, taskname, got>>
    /\ UNCHANGED notParams

\* the function is found and the wrapper of the task type runs it: it
\* returns and init() calls sys.exit(0), or an exception leaves it and
\* init() raises it again
TaskEnds(raises) ==
    /\ ppc = "task"
    /\ tasktype # None /\ taskname \in Functions
    /\ ppc' = IF raises THEN "raised" ELSE "exit0"
    /\ UNCHANGED <<parameters, passed, dtrace, cmd, worker, argv, params, filename_trace,
                   tasktype, taskname, got>>
    /\ UNCHANGED notParams

StartInit ==
    /\ cmd \in { <<program_name>> \o a : a \in SeqsUpTo(ArgTokens, MaxArgs) }
    /\ argv = cmd
    /\ params = EmptyDict
    /\ ppc = "started"
    /\ parameters = EmptyDict
    /\ passed = EmptyDict
    /\ dtrace = None
    /\ worker = ""
    /\ filename_trace = None
    /\ tasktype = None
    /\ taskname = None
    /\ got = <<>>
    \* the other parts have not started
    /\ task = ""
    /\ stdin = <<>>
    /\ pos = 0
    /\ key = 0
    /\ calls = <<>>
    /\ stdout = <<>>
    /\ pc = ""
    /\ mapout = <<>>
    /\ content = <<>>
    /\ dfsfile = <<>>
    /\ readback = <<>>
    /\ dpc = ""
    /\ prog = ""
    /\ nargs = 0
    /\ arg_max = 0
    /\ arg_start = 0
    /\ iteration_max = 0
    /\ iteration = 0
    /\ stop = 0
    /\ current = <<>>
    /\ previous = <<>>
    /\ written = {}
    /\ jobs = <<>>
    /\ cpc = ""
    /\ files = EmptyDict
    /\ graph = <<>>
    /\ source = <<>>
    /\ job_options = EmptyDict
    /\ jobfns = <<>>
    /\ flags = <<>>
    /\ procs = <<>>
    /\ preexisting = {}
    /\ puts = <<>>

StartNext ==
    \/ init
    \/ InitReturns
    \/ \E raises \in BOOLEAN : TaskEnds(raises)

(***************************************************************************)
(* The worker processes of one run, all started with the same '--trace',   *)
(* whose tasks return or raise: init() from the call of the wrapper on,    *)
(* with get_errorfile and handle_exception.  Every 'hadoop dfs' command is *)
(* one step of its own; the steps of the workers interleave.               *)
(***************************************************************************)
NWorkers    == 2     \* the worker processes
MaxExisting == 2     \* the suffixes 0..MaxExisting-1 may be on the DFS already

Workers == 1..NWorkers

\* the suffixes written so far by the first n dfs_write calls
PutSuffixes(n) == {puts[i].suffix : i \in 1..n}

\* dfs_exists(tracefile + k) could always answer False
DfsExistsNever(k) == FALSE
\* dfs_exists(tracefile + k): 'hadoop dfs -ls' prints something
dfs_exists(k) == k \in preexisting \/ k \in PutSuffixes(Len(puts))

\* the exit status of a worker that has ended: sys.exit(0), or an exception
\* that nothing catches
ExitStatus(w) ==
    IF procs[w].pc = "exit0" THEN 0 ELSE IF procs[w].pc = "failed" THEN 1 ELSE -1

\* tasks[tasktype](method) returns and init() calls sys.exit(0)
TaskReturns(w) ==
    /\ procs[w].pc = "task"
    /\ procs' = [procs EXCEPT ![w].pc = "exit0"]
    /\ UNCHANGED <<preexisting, puts>>
    /\ UNCHANGED notTrace

\* an exception leaves tasks[tasktype](method): 'except:' calls
\* handle_exception if filename_trace is set, and get_errorfile starts
\* with errno = 0
TaskRaises(w) ==
    /\ procs[w].pc = "task"
    /\ procs' = [procs EXCEPT ![w].raised = TRUE,
                              ![w].errno = 0,
                              ![w].pc = IF filename_trace # None /\ filename_trace # <<>>
                                        THEN "probe" ELSE "raise"]
    /\ UNCHANGED <<preexisting, puts>>
    /\ UNCHANGED notTrace

\* one turn of the loop of get_errorfile: the path exists and errno goes up
\* by one, or it does not and the path is returned ("seen" keeps how many
\* writes had been made by then)
get_errorfile(w) ==
    /\ procs[w].pc = "probe"
    /\ procs' = IF dfs_exists(procs[w].errno)
                THEN [procs EXCEPT ![w].errno = @ + 1]
                ELSE [procs EXCEPT ![w].pc = "write", ![w].seen = Len(puts)]
    /\ UNCHANGED <<preexisting, puts>>
    /\ UNCHANGED notTrace

\* handle_exception: dfs_write(errorfile, message)
handle_exception(w) ==
    /\ procs[w].pc = "write"
    /\ puts' = Append(puts, [by |-> w, suffix |-> procs[w].errno, seen |-> procs[w].seen])
    /\ procs' = [procs EXCEPT ![w].pc = "raise"]
    /\ UNCHANGED preexisting
    /\ UNCHANGED notTrace

\* 'raise': the exception leaves init() and the process
Reraise(w) ==
    /\ procs[w].pc = "raise"
    /\ procs' = [procs EXCEPT ![w].pc = "failed"]
    /\ UNCHANGED <<preexisting, puts>>
    /\ UNCHANGED notTrace

TraceInit ==
    /\ procs = [w \in Workers |-> [pc |-> "task", errno |-> 0, seen |-> 0, raised |-> FALSE]]
    /\ preexisting \in SUBSET (0..(MaxExisting - 1))
    /\ puts = <<>>
    /\ filename_trace \in {None, <<"t">>}
    \* the other parts have not started
    /\ task = ""
    /\ stdin = <<>>
    /\ pos = 0
    /\ key = 0
    /\ calls = <<>>
    /\ stdout = <<>>
    /\ pc = ""
    /\ mapout = <<>>
    /\ parameters = EmptyDict
    /\ passed = EmptyDict
    /\ dtrace = None
    /\ cmd = <<>>
    /\ worker = ""
    /\ argv = <<>>
    /\ params = EmptyDict
    /\ tasktype = None
    /\ taskname = None
    /\ got = <<>>
    /\ ppc = ""
    /\ content = <<>>
    /\ dfsfile = <<>>
    /\ readback = <<>>
    /\ dpc = ""
    /\ prog = ""
    /\ nargs = 0
    /\ arg_max = 0
    /\ arg_start = 0
    /\ iteration_max = 0
    /\ iteration = 0
    /\ stop = 0
    /\ current = <<>>
    /\ previous = <<>>
    /\ written = {}
    /\ jobs = <<>>
    /\ cpc = ""
    /\ files = EmptyDict
    /\ graph = <<>>
    /\ source = <<>>
    /\ job_options = EmptyDict
    /\ jobfns = <<>>
    /\ flags = <<>>

TraceNext ==
    \E w \in Workers :
        \/ TaskReturns(w)
        \/ TaskRaises(w)
        \/ get_errorfile(w)
        \/ handle_exception(w)
        \/ Reraise(w)

(***************************************************************************)
(* Specifications.  Each one runs one part of the program; the variables   *)
(* of the other parts stay as they are before that part starts.            *)
(***************************************************************************)
\* a map or reduce task on its input
SpecWorker == WorkerInit /\ [][WorkerNext]_vars

\* the reduce side of a Job, from the output of its map stage
SpecJob == JobInit /\ [][JobNext]_vars

\* run() in the driver, then a worker started from one of its commands
SpecParams == ParamsInit /\ [][ParamsNext]_vars

\* a file written with dfs_write and read back
SpecDfs == DfsInit /\ [][DfsNext]_vars

\* a run of one of the example programs
SpecController == ControllerInit /\ [][ControllerNext]_vars

\* a run of an example program on its data
SpecRun == RunInit /\ [][RunNext]_vars

\* one Job of an example program on its input
SpecExampleJob == ExampleJobInit /\ [][ExampleJobNext]_vars

\* one task of an example program on its standard input
SpecTask == TaskInit /\ [][TaskNext]_vars

\* a process of the calling program from its start to the end of init()
SpecStart == StartInit /\ [][StartNext]_vars

\* the workers of a run from the call of their tasks to their exit
SpecTrace == TraceInit /\ [][TraceNext]_vars

(***************************************************************************)
(* Properties of the wrappers.                                             *)
(***************************************************************************)
\* The record a line of the text record format stands for: the line without
\* its newline, cut at the first tab.
RecordOf(line) == split1(SubSeq(line, 1, Len(line) - 1), TAB)

\* the keys of the records of a stream, each once, in stream order
RECURSIVE StreamKeys(_)
StreamKeys(lines) ==
    IF lines = <<>> THEN <<>>
    ELSE LET rest == StreamKeys(Tail(lines))
             k    == RecordOf(Head(lines))[1]
         IN  IF rest # <<>> /\ rest[1] = k THEN rest ELSE <<k>> \o rest

\* the values of the records of a stream that carry key k, in stream order
RECURSIVE StreamValues(_, _)
StreamValues(lines, k) ==
    IF lines = <<>> THEN <<>>
    ELSE (IF RecordOf(Head(lines))[1] = k THEN <<RecordOf(Head(lines))[2]>> ELSE <<>>)
         \o StreamValues(Tail(lines), k)

\* C1: when a reducer worker ends, it has invoked the reduce function once
\* per distinct key of its input stream, on exactly those keys, and has passed
\* each invocation exactly the values of that key's records in stream order.
C1_ReducerGroups ==
    (task = "preducer" /\ pc # "run") =>
        /\ pc = "done"
        /\ [i \in 1..Len(calls) |-> calls[i].key] = StreamKeys(stdin)
        /\ \A i \in 1..Len(calls) :
              /\ calls[i].error = "none"
              /\ calls[i].value = StreamValues(stdin, calls[i].key)

\* the number of pairs an invocation returned
NPairs(ret) ==
    CASE ret.kind = "none"  -> 0
      [] ret.kind = "tuple" -> 1
      [] OTHER              -> Len(ret.pairs)

\* the number of pairs the invocations before the i-th returned
RECURSIVE EmittedBefore(_)
EmittedBefore(i) ==
    IF i <= 1 THEN 0
    ELSE EmittedBefore(i - 1)
         + (IF calls[i - 1].error = "raised" THEN 0 ELSE NPairs(calls[i - 1].ret))

\* the map function is invoked once per line consumed, in input order
OncePerLine ==
    /\ Len(calls) = pos
    /\ \A i \in 1..Len(calls) : calls[i].value = rstrip(stdin[i])

\* C2 as stated: mapper_wrapper invokes the map function once per line, in
\* input order, and the key passed for the i-th line (from 0) is str(i).
C2_KeyIsOrdinal ==
    task = "pmapper" =>
        /\ OncePerLine
        /\ \A i \in 1..Len(calls) : calls[i].key = DecStr(i - 1)

\* C2 amended: mapper_wrapper invokes the map function once per line, in
\* input order, and the key passed for a line is the string form of the number
\* of pairs the invocations for the earlier lines emitted.
C2_KeyCountsPairs ==
    task = "pmapper" =>
        /\ OncePerLine
        /\ \A i \in 1..Len(calls) : calls[i].key = DecStr(EmittedBefore(i))

\* a second line is mapped after a first one that emitted two pairs
C2_Witness ==
    /\ task = "pmapper"
    /\ Len(calls) >= 2
    /\ NPairs(calls[1].ret) = 2
    /\ calls[2].key = <<"2">>

\* C4: every invocation that returns n pairs (a list or generator of pairs, or
\* one bare 2-tuple) adds exactly n lines key<TAB>value to the output, in
\* emission order and before the lines of any later invocation; an invocation
\* that returns nothing adds none.
C4_LinesPerInvocation ==
    /\ Len(stdout) = EmittedBefore(Len(calls) + 1)
    /\ \A i \in 1..Len(calls) :
          calls[i].error # "raised" =>
            \A j \in 1..NPairs(calls[i].ret) :
                LET line == stdout[EmittedBefore(i) + j]
                    p    == calls[i].ret.pairs[j]
                    k    == IF p[1] # None THEN p[1]
                            ELSE IF task = "pmapper"
                                 THEN DecStr(EmittedBefore(i) + j - 1)
                                 ELSE <<"N", "o", "n", "e">>
                IN  split1(line, TAB) = <<k, rstrip(p[2])>>

\* an invocation that returned two pairs is followed by one that returned a
\* bare tuple, and the three lines are out
C4_Witness ==
    /\ Len(calls) >= 2
    /\ NPairs(calls[1].ret) = 2
    /\ calls[1].error # "raised"
    /\ calls[2].ret.kind = "tuple"
    /\ calls[2].error # "raised"
    /\ Len(stdout) = 3

\* C3: in a Job, the keys on which the reduce function is invoked come in
\* ascending lexicographic order, whatever pairs the map stage emitted.
C3_KeysAscending ==
    \A i, j \in 1..Len(calls) : i < j => StrLess(calls[i].key, calls[j].key)

(***************************************************************************)
(* The text record format through dfs_write and read_input_reducer.        *)
(***************************************************************************)
\* the pairs given to dfs_write, as the lists a reader would return for them
PairsWritten ==
    LET items == IF content.list THEN content.pairs ELSE <<content.pairs[1]>>
    IN  [i \in 1..Len(items) |-> <<items[i][1], items[i][2]>>]

\* C5: the pairs written with dfs_write (keys and values without tab or
\* newline, a value possibly empty or ending in whitespace) are the pairs
\* that read_input_reducer returns from the file, in the same order (stated
\* for a sequence of at least one pair).
C5_RoundTrip ==
    (dpc = "read" /\ content.pairs # <<>>) => readback = PairsWritten

(***************************************************************************)
(* Parameters across the process boundary.                                 *)
(***************************************************************************)
Reserved == {option_mapper, option_reducer, option_trace}

\* the worker's user function has asked for a parameter
Asked == ppc = "task" /\ got # <<>>

\* C6: when every parameter passed to run() has a name that is not reserved
\* and a single string value, whatever its first character, the worker's
\* get_parameters(name) returns the value that was passed.
C6_ParameterRoundTrip ==
    ( /\ Asked
      /\ \A n \in DOMAIN passed : n \notin Reserved /\ ~passed[n].list
      /\ got[1] \in DOMAIN passed )
    => got[2] = passed[got[1]].vals[1]

\* C7: a parameter given to run() as a list of several strings reaches the
\* worker with every value of the list, in order.
C7_AllListValues ==
    ( /\ Asked
      /\ DOMAIN passed \cap Reserved = {}
      /\ got[1] \in DOMAIN passed
      /\ passed[got[1]].list )
    => got[2] = passed[got[1]].vals

\* C8: after init() in a worker, get_parameters returns None for the mapper
\* flag, the reducer flag and the trace name.
C8_ReservedRemoved ==
    ( /\ Asked
      /\ DOMAIN passed \cap Reserved = {}
      /\ got[1] \in Reserved )
    => got[2] = None

\* C9: whatever the names of the user's parameters (single values that do
\* not start with a dash), the worker started from the mapper command runs
\* the map function given to run(), the worker started from the reducer
\* command runs the reduce function, and a user parameter keeps its value.
C9_NoCollision ==
    ( /\ ppc = "task"
      /\ \A n \in DOMAIN passed :
            ~passed[n].list /\ ~startswith(passed[n].vals[1], <<"-">>) )
    => /\ worker = "pmapper" => tasktype = option_mapper /\ taskname = mapper_name
       /\ worker = "preducer" => tasktype = option_reducer /\ taskname = reducer_name
       /\ (got # <<>> /\ got[1] \in DOMAIN passed) => got[2] = passed[got[1]].vals[1]

(***************************************************************************)
(* The file names of the iteration controllers.                            *)
(***************************************************************************)
BaseNames == {"frontier", "filter", "termination", "output_pagerank", "output_term",
              "output"}

\* C10: in every run of the three controllers, for every start iteration,
\* the output of a Job of an iteration is a base name with the iteration
\* number padded to four digits, is none of the inputs of that Job, and has
\* not been written earlier in the run.
C10_NamingDiscipline ==
    \A i \in 1..Len(jobs) :
        /\ jobs[i].mapper # "split_mapper" =>
              \E base \in BaseNames : jobs[i].output = FileName(base, jobs[i].iteration)
        /\ jobs[i].output \notin jobs[i].inputs
        /\ ~jobs[i].existed

(***************************************************************************)
(* The records by which the example programs decide to go on or to stop.   *)
(***************************************************************************)
TerminationJobs == {"termination_mapper", "term_mapper"}

ContinueRecord  == <<"0", TAB, "0">>
StopRecord      == <<"1", TAB, "1">>
MergeStopRecord == <<"0", TAB, "1">>

KeyOf(line)   == ParseLine(line)[1]
ValueOf(line) == ParseLine(line)[2]

\* the records of a Job's output on which the controller stops: in a
\* termination Job a record with a value other than 0, in a merge Job a last
\* record with the id 0
StopLines(job) ==
    IF job.mapper \in TerminationJobs
    THEN { n \in 1..Len(job.out) : int(ValueOf(job.out[n])) # 0 }
    ELSE IF job.mapper = "merge_mapper"
    THEN { n \in 1..Len(job.out) : n = Len(job.out) /\ int(KeyOf(job.out[n])) = 0 }
    ELSE {}

\* C11 as stated: in the output of a termination Job of dijkstra.py or
\* pagerank.py and of a merge Job of mergesort.py, the record on which the
\* controller stops has the key 0, and no other record of that output has
\* its key.
C11_StopKeyZero ==
    \A i \in 1..Len(jobs) :
        ~jobs[i].failed =>
            \A n \in StopLines(jobs[i]) :
                /\ KeyOf(jobs[i].out[n]) = <<"0">>
                /\ \A m \in 1..Len(jobs[i].out) :
                       m \notin StopLines(jobs[i]) => KeyOf(jobs[i].out[m]) # KeyOf(jobs[i].out[n])

\* C11, amended: a record of the output of a termination Job of dijkstra.py
\* or pagerank.py has its value as its key, (0, 0) to go on and (1, 1) to
\* stop, so that the record on which the controller stops has the key 1; in
\* the output of a merge Job of mergesort.py only the record (0, 1) has the
\* key 0, it is the last record, and every other record has a bucket id of
\* at least 1.
C11_StopRecord ==
    \A i \in 1..Len(jobs) :
        ~jobs[i].failed =>
            /\ jobs[i].mapper \in TerminationJobs =>
                   \A n \in 1..Len(jobs[i].out) :
                       /\ jobs[i].out[n] \in { ContinueRecord, StopRecord }
                       /\ n \in StopLines(jobs[i]) <=> jobs[i].out[n] = StopRecord
            /\ jobs[i].mapper = "merge_mapper" =>
                   \A n \in 1..Len(jobs[i].out) :
                       IF n \in StopLines(jobs[i])
                       THEN jobs[i].out[n] = MergeStopRecord
                       ELSE int(KeyOf(jobs[i].out[n])) >= 1

\* C11: the termination Job of dijkstra.py has left the record (1, 1)
C11_Witness ==
    /\ cpc = "exit"
    /\ jobs # <<>>
    /\ jobs[1].mapper = "termination_mapper"
    /\ ~jobs[1].failed
    /\ jobs[1].out = <<StopRecord>>

\* C12: in every run of dijkstra.py and pagerank.py, every termination Job
\* has left exactly one record, and after the termination Job of a round the
\* controller's stop is the value of that record (0 to go on), the program
\* not having ended on reading it.
C12_OneRecordDecides ==
    \A i \in 1..Len(jobs) :
        jobs[i].mapper \in TerminationJobs =>
            /\ ~jobs[i].failed
            /\ Len(jobs[i].out) = 1
            /\ i = Len(jobs) =>
                   /\ cpc # "crashed"
                   /\ stop = int(ValueOf(jobs[i].out[1]))

(***************************************************************************)
(* Shortest paths by hops in a graph on the nodes 0 .. 2.                  *)
(***************************************************************************)
Nodes == 0..2

\* the nodes k hops from s
RECURSIVE Level(_, _, _)
Level(g, s, k) ==
    IF k = 0 THEN {s}
    ELSE { m \in Nodes : \E u \in Level(g, s, k - 1) : \E j \in 1..Len(g[u]) : g[u][j] = m }

Reachable(g, s) == { n \in Nodes : \E k \in 0..2 : n \in Level(g, s, k) }

HopDist(g, s, n) == CHOOSE k \in 0..2 : n \in Level(g, s, k) /\ \A j \in 0..(k - 1) : n \notin Level(g, s, j)

ShortestLines(g, s) == { NodeLine(n, HopDist(g, s, n)) : n \in Reachable(g, s) }

LineSet(lines) == { lines[n] : n \in 1..Len(lines) }

\* the candidates of a frontier Job on the lines of a filter file: a node's
\* own distance, and for a node whose distance is not negative the distance
\* plus one for every node adjacent to it
Candidates(g, lines) ==
    UNION { LET ni == node_info(lines[n])
            IN  IF ni.none THEN {}
                ELSE { <<ni.node, Abs(ni.distance)>> }
                     \cup (IF ni.distance >= 0
                           THEN { <<g[ni.node][j], ni.distance + 1>> : j \in 1..Len(g[ni.node]) }
                           ELSE {})
            : n \in 1..Len(lines) }

MinByNode(cands) == { c \in cands : \A o \in cands : o[1] = c[1] => c[2] <= o[2] }

FrontierKeepsMin(job) ==
    /\ ~job.failed
    /\ LineSet(job.out) = { NodeLine(c[1], c[2]) : c \in MinByNode(Candidates(graph, job.read[1])) }
    /\ Len(job.out) = Cardinality(LineSet(job.out))

FrontierRounds == Cardinality({ i \in 1..Len(jobs) : jobs[i].mapper = "frontier_mapper" })

Ended == cpc \in {"exit", "crashed"}

\* C13: when dijkstra.py has ended on the path graph 0 -> 1 -> 2 with the
\* source 0, it has run two frontier Jobs, has read the flag 0 (go on) in
\* round 1 and the flag 1 (stop) in round 2, and the last frontier holds the
\* distances 0:0, 1:1, 2:2.
C13_PathGraphTwoRounds ==
    (prog = "dijkstra" /\ graph = PathGraph /\ source = <<"0">> /\ Ended) =>
        /\ cpc = "exit"
        /\ FrontierRounds = 2
        /\ flags = <<0, 1>>
        /\ DfsRead(current.frontier) = <<NodeLine(0, 0), NodeLine(1, 1), NodeLine(2, 2)>>

\* C14: in every run of dijkstra.py from a node of the graph, every frontier
\* Job has left, for each node with a candidate distance, the least of its
\* candidates; and when the program has ended it has left the loop with the
\* last frontier holding exactly the nodes in reach of the source, each with
\* its least number of hops.
C14_ShortestPaths ==
    (prog = "dijkstra" /\ IsInt(source) /\ int(source) \in Nodes) =>
        /\ \A i \in 1..Len(jobs) :
               jobs[i].mapper = "frontier_mapper" => FrontierKeepsMin(jobs[i])
        /\ Ended =>
               /\ cpc = "exit"
               /\ LineSet(DfsRead(current.frontier)) = ShortestLines(graph, int(source))

(***************************************************************************)
(* The numbers given to mergesort.py and the rounds it takes.              *)
(***************************************************************************)
\* the numbers of the lines, in the order of the input
RECURSIVE NumbersOf(_)
NumbersOf(lines) ==
    IF lines = <<>> THEN <<>>
    ELSE [i \in 1..Len(split(Head(lines))) |-> int(split(Head(lines))[i])]
         \o NumbersOf(Tail(lines))

RECURSIVE Pow2(_)
Pow2(k) == IF k = 0 THEN 1 ELSE 2 * Pow2(k - 1)

\* the least k with n <= 2^k
CeilLog2(n) == CHOOSE k \in 0..8 : n <= Pow2(k) /\ (k = 0 \/ Pow2(k - 1) < n)

MergeRounds == Cardinality({ i \in 1..Len(jobs) : jobs[i].mapper = "merge_mapper" })

\* the merge loop of a run on at least one number has stopped
MergeLoopStopped ==
    /\ prog = "mergesort"
    /\ NumbersOf(files[<<"input">>]) # <<>>
    /\ stop # 0

\* C15 as stated: a merge Job on a single bucket with the id 1 leaves the
\* record (0, 1) as its last record, and on n numbers the merge loop stops
\* after ceil(log2 n) merge rounds.
C15_LogRounds ==
    /\ \A i \in 1..Len(jobs) :
           (jobs[i].mapper = "merge_mapper" /\ ~jobs[i].failed /\ Len(jobs[i].read[1]) = 1
                /\ KeyOf(jobs[i].read[1][1]) = <<"1">>)
           => jobs[i].out[Len(jobs[i].out)] = MergeStopRecord
    /\ MergeLoopStopped => MergeRounds = CeilLog2(Len(NumbersOf(files[<<"input">>])))

\* C15, amended: a merge Job on a single bucket with the id 1 leaves the
\* record (0, 1) as its last record, a merge Job on more buckets leaves no
\* such record, and on n numbers the merge loop stops after
\* ceil(log2 n) + 1 merge rounds, the last of which merges nothing.
C15_LogRoundsAndOne ==
    /\ \A i \in 1..Len(jobs) :
           (jobs[i].mapper = "merge_mapper" /\ ~jobs[i].failed /\ jobs[i].read[1] # <<>>) =>
               IF Len(jobs[i].read[1]) = 1 /\ KeyOf(jobs[i].read[1][1]) = <<"1">>
               THEN /\ jobs[i].out = <<jobs[i].read[1][1], MergeStopRecord>>
               ELSE \A n \in 1..Len(jobs[i].out) : jobs[i].out[n] # MergeStopRecord
    /\ MergeLoopStopped => MergeRounds = CeilLog2(Len(NumbersOf(files[<<"input">>]))) + 1

\* C15: the merge loop has stopped on three numbers, after three rounds
C15_Witness ==
    /\ MergeLoopStopped
    /\ Len(NumbersOf(files[<<"input">>])) = 3
    /\ MergeRounds = 3
    /\ jobs[Len(jobs)].mapper = "merge_mapper"
    /\ jobs[Len(jobs)].out[Len(jobs[Len(jobs)].out)] = MergeStopRecord

\* the numbers of a record of buckets, and those of the records of a file
BucketNumbers(line) == [i \in 1..Len(split(ValueOf(line))) |-> int(split(ValueOf(line))[i])]

IsSorted(ints) == \A i \in 1..(Len(ints) - 1) : ints[i] <= ints[i + 1]

\* how often x is in ints
Count(ints, x) == Cardinality({ i \in 1..Len(ints) : ints[i] = x })

SameNumbers(a, b) ==
    /\ Len(a) = Len(b)
    /\ \A i \in 1..Len(a) : Count(a, a[i]) = Count(b, a[i])

\* C16: when mergesort.py has ended on an input of n >= 1 integers, it has
\* ended after its split Job, whose output holds the records (i, v_i) for
\* i = 1 .. n with v_1 <= ... <= v_n the numbers of the input, each as often
\* as in the input; and every bucket left by a merge round is sorted.
C16_Sorted ==
    (prog = "mergesort" /\ NumbersOf(files[<<"input">>]) # <<>>) =>
        /\ \A i \in 1..Len(jobs) :
               jobs[i].mapper = "merge_mapper" =>
                   /\ ~jobs[i].failed
                   /\ \A n \in 1..Len(jobs[i].out) :
                          jobs[i].out[n] # MergeStopRecord
                          => IsSorted(BucketNumbers(jobs[i].out[n]))
        /\ Ended =>
               /\ cpc = "exit"
               /\ <<"output_sorted">> \in DOMAIN files
               /\ LET out == files[<<"output_sorted">>]
                      v   == [i \in 1..Len(out) |-> int(ValueOf(out[i]))]
                  IN  /\ \A i \in 1..Len(out) : KeyOf(out[i]) = IntStr(i)
                      /\ IsSorted(v)
                      /\ SameNumbers(v, NumbersOf(files[<<"input">>]))

\* the whitespace-separated words of the lines, in the order of the input
RECURSIVE WordsOf(_)
WordsOf(lines) ==
    IF lines = <<>> THEN <<>> ELSE split(Head(lines)) \o WordsOf(Tail(lines))

\* C17: when wordcount.py has run its Job on any lines, the Job has left
\* exactly one record per distinct whitespace-separated word of the lines,
\* and the record of a word holds the number of times the word is in them.
C17_WordCounts ==
    (prog = "wordcount" /\ cpc = "exit") =>
        LET words == WordsOf(files[<<"input">>])
            out   == files[<<"output">>]
        IN  /\ ~jobs[1].failed
            /\ LineSet(out) = { words[i] \o <<TAB>> \o IntStr(Count(words, words[i]))
                                : i \in 1..Len(words) }
            /\ Len(out) = Cardinality({ words[i] : i \in 1..Len(words) })

\* C17: the Job has run on the lines 'a b a' and 'b c' and has left a 2,
\* b 2, c 1
C17_Witness ==
    /\ prog = "wordcount" /\ cpc = "exit"
    /\ files[<<"input">>] = << <<"a", SP, "b", SP, "a">>, <<"b", SP, "c">> >>
    /\ files[<<"output">>] = << <<"a", TAB, "2">>, <<"b", TAB, "2">>, <<"c", TAB, "1">> >>

\* the sum over the nodes of a PageRank file of (previous - current)^2
RECURSIVE SquaredDeltas(_)
SquaredDeltas(lines) ==
    IF lines = <<>> THEN Float(FALSE, <<>>, 0)
    ELSE FloatAdd(FloatMul(FloatSub(pr_node_info(Head(lines)).pr_previous,
                                    pr_node_info(Head(lines)).pr_current),
                           FloatSub(pr_node_info(Head(lines)).pr_previous,
                                    pr_node_info(Head(lines)).pr_current)),
                  SquaredDeltas(Tail(lines)))

\* the sum of the squared deltas of the file a termination Job has read is
\* above precision^2
AbovePrecision(job) ==
    FloatGreater(SquaredDeltas(job.read[1]),
                 FloatMul(float(job_options[<<"precision">>]),
                          float(job_options[<<"precision">>])))

RoundJobs == { i \in 1..Len(jobs) : jobs[i].mapper \in {"pagerank_mapper", "frontier_mapper"} }

\* the Jobs whose output the controller reads as the flag
FlagJobs == { i \in 1..Len(jobs) : jobs[i].mapper \in {"term_mapper", "termination_mapper"} }

\* C19: in every run of pagerank.py and dijkstra.py, each round was started
\* with the iteration counter below iteration_max, the counter of a later
\* round is larger (so a finite iteration_max leaves at most iteration_max
\* minus the first counter rounds, whatever the flag reads), every flag read
\* before the last one was 'continue', after a flag that is not 'continue' no
\* Job was submitted, and the loop was left only with such a flag or with the
\* counter at iteration_max or above.
C19_LoopEnds ==
    prog \in {"pagerank", "dijkstra"} =>
        /\ \A i \in RoundJobs : jobs[i].iteration < iteration_max
        /\ \A i, j \in RoundJobs : i < j => jobs[i].iteration < jobs[j].iteration
        /\ Cardinality(RoundJobs) <= Larger(0, iteration_max - 1)
        /\ \A i \in 1..(Len(flags) - 1) : flags[i] = 0
        /\ (flags # <<>> /\ flags[Len(flags)] # 0) =>
               /\ stop # 0 /\ cpc \in {"loop", "exit"}
               /\ Len(jobs) \in FlagJobs /\ ~jobs[Len(jobs)].failed
               /\ Cardinality(RoundJobs) = Len(flags)
        /\ cpc = "exit" => stop # 0 \/ iteration >= iteration_max

\* C19 witness: a PageRank run with the iteration_max 5 has left its loop at
\* the ceiling, after three rounds whose flags all read 'continue'
C19_Witness ==
    /\ prog = "pagerank" /\ cpc = "exit"
    /\ nargs = 6 /\ iteration_max = 5 /\ iteration = 5
    /\ flags = <<0, 0, 0>> /\ stop = 0
    /\ Cardinality(RoundJobs) = 3

(***************************************************************************)
(* C20: a failed Job ends the run.                                         *)
(***************************************************************************)

\* C20: in every run of an example program a Job that failed is the last
\* Job the controller submitted: no Job follows a failed one, and in a round
\* of dijkstra.py no filter or termination Job follows a failed frontier Job.
C20_NoJobAfterFailure ==
    \A i \in 1..Len(jobs) : jobs[i].failed => i = Len(jobs)

(***************************************************************************)
(* C22: the arguments of dijkstra.py.                                      *)
(***************************************************************************)

\* C22: dijkstra.py prints its usage and exits only when its argument count
\* is none of the documented ones: with graph and source_node (len(sys.argv)
\* 3), with iteration_max as well (4) or with iteration_start too (5) it
\* goes on to its loop.
C22_OptionalArguments ==
    (prog = "dijkstra" /\ cpc = "usage") => nargs \notin {3, 4, 5}

(***************************************************************************)
(* C29: what run() does to its caller's objects.                           *)
(***************************************************************************)

\* C29: after run() has returned, with or without a trace file configured,
\* the parameters dictionary of the caller has exactly the names and values
\* it had when run() was called.
C29_CallerParametersKept ==
    ppc # "driver" => parameters = passed

(***************************************************************************)
(* C30: the rounds of dijkstra.py.                                         *)
(***************************************************************************)

\* the largest number of hops from s to a node in its reach
Eccentricity(g, s) ==
    CHOOSE d \in 0..2 : /\ \E n \in Reachable(g, s) : HopDist(g, s, n) = d
                        /\ \A n \in Reachable(g, s) : HopDist(g, s, n) <= d

\* the nodes of the lines of a frontier, and the distance of a node in it
FrontierNodes(lines) == { node_info(lines[n]).node : n \in 1..Len(lines) }
FrontierDistance(lines, node) ==
    node_info(lines[CHOOSE n \in 1..Len(lines) : node_info(lines[n]).node = node]).distance

FrontierJobs == { i \in 1..Len(jobs) : jobs[i].mapper = "frontier_mapper" }

\* C30: in every run of dijkstra.py from a node of the graph, with D the
\* largest number of hops to a node in reach, the program does not end on an
\* exception, the flag of every round up to D reads 0 (continue), the flag
\* of round D + 1 reads 1 (converged) and is the last, the program leaves
\* its loop after it, and from one frontier Job to the next no node leaves
\* the frontier and no node's distance grows.
C30_DijkstraConverges ==
    (prog = "dijkstra" /\ IsInt(source) /\ int(source) \in Nodes) =>
        /\ cpc # "crashed"
        /\ Len(flags) <= Eccentricity(graph, int(source)) + 1
        /\ \A r \in 1..Len(flags) :
               flags[r] = IF r <= Eccentricity(graph, int(source)) THEN 0 ELSE 1
        /\ cpc = "exit" => Len(flags) = Eccentricity(graph, int(source)) + 1
        /\ \A i, j \in FrontierJobs : i < j =>
               /\ FrontierNodes(jobs[i].out) \subseteq FrontierNodes(jobs[j].out)
               /\ \A n \in FrontierNodes(jobs[i].out) :
                      FrontierDistance(jobs[j].out, n) <= FrontierDistance(jobs[i].out, n)

(***************************************************************************)
(* Single tasks of the example programs.                                   *)
(***************************************************************************)
\* the value of the record is no number for the reduce function of the task
Malformed(line) ==
    IF jobfns[1] = "termination_reducer" THEN ~IsInt(ValueOf(line))
    ELSE ~IsFloat(ValueOf(line))

\* C24: when a reduce task of termination_reducer or of term_reducer has
\* read a group in which a value is not a number, wherever it stands in the
\* group and whatever the other values are, the task has ended without an
\* exception and has printed the one record (1, 1).
C24_StopOnMalformed ==
    ( /\ task = "preducer" /\ pc # "run"
      /\ jobfns[1] \in {"termination_reducer", "term_reducer"}
      /\ \E i \in 1..Len(stdin) : Malformed(stdin[i]) )
    => pc = "done" /\ stdout = <<StopRecord>>

\* frontier_mapper on the record yields the node with the distance without
\* its sign and nothing of the node's adjacency list
Reinjected(line) ==
    frontier_mapper(<<"0">>, line, EmptyDict, PathGraph)
        = Returned(Gen(<< <<KeyOf(line), IntStr(Abs(int(ValueOf(line))))>> >>))

\* termination_mapper on the record yields (0, 0): not changed
CountedUnchanged(line) ==
    termination_mapper(<<"0">>, line) = Returned(Gen(<< <<IntStr(0), IntStr(0)>> >>))

\* C25: a reduce task of filter_reducer on the records of a node has
\* printed one record for it.  For a node with the same distance d >= 0 in
\* the previous and in the current frontier that record holds -d, a number
\* below 0, with which frontier_mapper yields the node again without its
\* adjacent nodes and termination_mapper counts it as unchanged; for a node
\* with one distance, or with two that differ, it holds the least distance,
\* which is not negative.
C25_UnchangedNegative ==
    (task = "preducer" /\ jobfns[1] = "filter_reducer" /\ pc = "done" /\ stdin # <<>>) =>
        /\ Len(stdout) = 1
        /\ KeyOf(stdout[1]) = KeyOf(stdin[1])
        /\ IF Len(stdin) = 2 /\ ValueOf(stdin[1]) = ValueOf(stdin[2])
           THEN /\ int(ValueOf(stdout[1])) = 0 - int(ValueOf(stdin[1]))
                /\ int(ValueOf(stdout[1])) < 0
                /\ Reinjected(stdout[1])
                /\ CountedUnchanged(stdout[1])
           ELSE /\ int(ValueOf(stdout[1])) >= 0
                /\ \A i \in 1..Len(stdin) : int(ValueOf(stdout[1])) <= int(ValueOf(stdin[i]))
                /\ \E i \in 1..Len(stdin) : int(ValueOf(stdout[1])) = int(ValueOf(stdin[i]))

\* C27: a map task of init_mapper on any lines, empty ones and lines of
\* several numbers among them, has printed one record per number of its
\* input, in the order of the input, and the key of the i-th record is i:
\* the keys are 1 .. N for N numbers, none of them twice.
C27_BucketKeysOnce ==
    (task = "pmapper" /\ jobfns[1] = "init_mapper" /\ pc # "run") =>
        /\ pc = "done"
        /\ Len(stdout) = Len(NumbersOf(stdin))
        /\ \A i \in 1..Len(stdout) :
               /\ KeyOf(stdout[i]) = IntStr(i)
               /\ int(ValueOf(stdout[i])) = NumbersOf(stdin)[i]
        /\ \A i, j \in 1..Len(stdout) : i # j => KeyOf(stdout[i]) # KeyOf(stdout[j])

\* C27: the task has read a line of two numbers, an empty line and a line
\* of three numbers, and has printed five records
C27_Witness ==
    /\ task = "pmapper" /\ jobfns[1] = "init_mapper" /\ pc = "done"
    /\ stdin = << <<"3", SP, "1">>, <<>>, <<"1", SP, "2", SP, "2">> >>
    /\ Len(stdout) = 5
    /\ KeyOf(stdout[5]) = IntStr(5)

(***************************************************************************)
(* A process from its start to the end of init().                          *)
(***************************************************************************)

\* av[i] is a '--name' with name in names
IsNamed(av, names, i) ==
    i >= 1 /\ i <= Len(av) /\ IsOption(av[i]) /\ SubSeq(av[i], 3, Len(av[i])) \in names

\* av without every '--name' whose name is in names and without the token
\* that follows such a '--name', the other tokens in their order
RECURSIVE WithoutOptions(_, _, _)
WithoutOptions(av, names, i) ==
    IF i > Len(av) THEN <<>>
    ELSE IF IsNamed(av, names, i) \/ IsNamed(av, names, i - 1)
         THEN WithoutOptions(av, names, i + 1)
         ELSE <<av[i]>> \o WithoutOptions(av, names, i + 1)

\* C26: for every argument vector the process is started with, once init()
\* has called cleanup_parameters('trace') sys.argv is the vector without
\* each '--trace' and without the one token after each '--trace', every
\* other token kept in its order
C26_CleanupExact ==
    (ppc # "started" /\ filename_trace # None /\ filename_trace # <<>>)
        => argv = WithoutOptions(cmd, {option_trace}, 1)

\* C28: a process started with '--pmapper' or '--preducer' never comes back
\* from init() into the statements of the calling program
C28_NoDriverInWorker ==
    (\E i \in 1..Len(cmd) : cmd[i] \in {DASHES \o option_mapper, DASHES \o option_reducer})
        => ppc # "main"

(***************************************************************************)
(* Trace files of failing workers.                                         *)
(***************************************************************************)
TraceSet == filename_trace # None /\ filename_trace # <<>>

\* the dfs_write calls of worker w
PutsOf(w) == {i \in 1..Len(puts) : puts[i].by = w}

C23_DistinctTracePaths ==
    \A i, j \in 1..Len(puts) : i # j => puts[i].suffix # puts[j].suffix

====
